---- MODULE Spec2Model ----
(***************************************************************************)
(* The per-domain job / monitor discipline of the QEMU driver               *)
(* (src/qemu/qemu_driver.c), for one domain object and a small pool of      *)
(* threads.  Every public operation is a sequence of atomic sections: the   *)
(* code between two points where the thread gives up the domain lock (a     *)
(* wait for job admission, a monitor or agent command).  The job primitives *)
(* (qemu_domain.c), the process helpers (qemu_process.c) and the migration  *)
(* helpers (qemu_migration.c) are not part of the sources at hand; they are *)
(* modelled from the specification and from the way the driver calls them.  *)
(***************************************************************************)
EXTENDS Integers, FiniteSets, Sequences, TLC

\* ------------------------------------------------------------ bounds
NThreads == 2
MaxCalls == 3

Threads == 1..NThreads
\* the client connections (dom->conn) of the calls
NConns == 2
Conns == 1..NConns
NoThread == 0

\* ------------------------------------------------------------ enums
\* enum qemuDomainJob (synchronous job kinds) and the nested job an async
\* job's owner takes around each of its monitor commands
QEMU_JOB_NONE == "NONE"
QEMU_JOB_QUERY == "QUERY"
QEMU_JOB_DESTROY == "DESTROY"
QEMU_JOB_SUSPEND == "SUSPEND"
QEMU_JOB_MODIFY == "MODIFY"
QEMU_JOB_ABORT == "ABORT"
QEMU_JOB_MIGRATION_OP == "MIGRATION_OP"
QEMU_JOB_ASYNC_NESTED == "ASYNC_NESTED"

\* enum qemuDomainAsyncJob
QEMU_ASYNC_JOB_NONE == "NONE"
QEMU_ASYNC_JOB_MIGRATION_OUT == "MIGRATION_OUT"
QEMU_ASYNC_JOB_MIGRATION_IN == "MIGRATION_IN"
QEMU_ASYNC_JOB_SAVE == "SAVE"
QEMU_ASYNC_JOB_DUMP == "DUMP"
QEMU_ASYNC_JOB_SNAPSHOT == "SNAPSHOT"

\* the default mask of an async job: QUERY and ABORT only
DEFAULT_JOB_MASK == {QEMU_JOB_QUERY, QEMU_JOB_ABORT}
\* the mask of an outgoing migration and of the memory step of a snapshot
WIDE_JOB_MASK == DEFAULT_JOB_MASK \cup {QEMU_JOB_SUSPEND, QEMU_JOB_MIGRATION_OP}

VARIABLES
    vm,        \* the domain object: store membership, process, run state
    job,       \* priv->job: the Job State of the domain
    mon,       \* threads between EnterMonitor/EnterAgent and the matching Exit
    closeCb,   \* close-callback registry entry of the domain
    img,       \* the save image file of the domain
    pc,        \* per thread: where it is blocked ("idle": not in an operation)
    op,        \* per thread: the operation it runs (or ran last)
    ret,       \* per thread: result of the last operation that returned
    loc,       \* per thread: the locals of the running operation
    calls      \* operations started so far

vars == <<vm, job, mon, closeCb, img, pc, op, ret, loc, calls>>

\* ------------------------------------------------------------ job state

\* qemuDomainObjResetJob + qemuDomainObjResetAsyncJob
NoJob ==
    [active |-> QEMU_JOB_NONE, owner |-> NoThread,
     asyncJob |-> QEMU_ASYNC_JOB_NONE, asyncOwner |-> NoThread,
     phase |-> "NONE", mask |-> DEFAULT_JOB_MASK,
     asyncAbort |-> FALSE, dump_memory_only |-> FALSE, info |-> "NONE"]

\* the admission test of BeginJob without the mask of the async job
CanBeginJobIgnoringMask(j, kind) == j.active = QEMU_JOB_NONE

\* admission test of BeginJob: no sync job, and no async job or kind in mask
CanBeginJob(j, kind) ==
    /\ j.active = QEMU_JOB_NONE
    /\ (j.asyncJob = QEMU_ASYNC_JOB_NONE \/ kind \in j.mask)

\* admission test of BeginAsyncJob: async jobs never nest
CanBeginAsyncJob(j) ==
    /\ j.active = QEMU_JOB_NONE
    /\ j.asyncJob = QEMU_ASYNC_JOB_NONE

\* admission test of the nested job of the async job's owner
CanBeginNestedJob(j) == j.active = QEMU_JOB_NONE

BeginJob(j, t, kind) == [j EXCEPT !.active = kind, !.owner = t]

BeginAsyncJob(j, t, kind) ==
    [j EXCEPT !.asyncJob = kind, !.asyncOwner = t, !.phase = "NONE",
              !.mask = DEFAULT_JOB_MASK, !.asyncAbort = FALSE,
              !.dump_memory_only = FALSE, !.info = "NONE"]

EndJob(j) == [j EXCEPT !.active = QEMU_JOB_NONE, !.owner = NoThread]

\* EndAsyncJob leaving the phase of the job that ended
EndAsyncJobKeepingPhase(j) ==
    [j EXCEPT !.asyncJob = QEMU_ASYNC_JOB_NONE, !.asyncOwner = NoThread,
              !.mask = DEFAULT_JOB_MASK, !.asyncAbort = FALSE,
              !.dump_memory_only = FALSE, !.info = "NONE"]

EndAsyncJob(j) ==
    [j EXCEPT !.asyncJob = QEMU_ASYNC_JOB_NONE, !.asyncOwner = NoThread,
              !.phase = "NONE", !.mask = DEFAULT_JOB_MASK,
              !.asyncAbort = FALSE, !.dump_memory_only = FALSE,
              !.info = "NONE"]

SetAsyncJobMask(j, m) == [j EXCEPT !.mask = m]

AbortAsyncJob(j) == [j EXCEPT !.asyncAbort = TRUE]

\* a reference on the domain object is taken by Begin*Job and dropped by
\* End*Job, whose result tells whether the object is still referenced
Ref(v) == [v EXCEPT !.refs = v.refs + 1]
Unref(v) == [v EXCEPT !.refs = IF v.refs > 0 THEN v.refs - 1 ELSE 0]


\* ------------------------------------------------------------ domain

\* qemuProcessStop: the QEMU process is gone and the domain is shut off
qemuProcessStop(v) ==
    [v EXCEPT !.active = FALSE, !.alive = FALSE, !.state = "shutoff",
              !.blockjob = "none"]

\* qemuProcessKill: the process is signalled; the domain object is untouched
qemuProcessKill(v) == [v EXCEPT !.alive = FALSE]

\* qemuDomainRemoveInactive: the store drops the domain and its reference
qemuDomainRemoveInactive(v) ==
    IF v.inStore THEN Unref([v EXCEPT !.inStore = FALSE]) ELSE v


\* ------------------------------------------------------------ save image

QEMUD_SAVE_MAGIC == "LibvirtQemudSave"
QEMUD_SAVE_PARTIAL == "LibvirtQemudPart"

\* no file at the path of the image.  present: the file exists; header: it
\* is long enough to hold a header; magic, was_running: fields of the
\* header; restored: a QEMU process was started from the file
NoImage ==
    [present |-> FALSE, header |-> FALSE, magic |-> "", was_running |-> FALSE,
     restored |-> FALSE]

\* ------------------------------------------------------------ threads

\* the locals of an operation: rv is its `ret`, f the set of its boolean
\* locals and flags that are set
NoLoc == [rv |-> "fail", f |-> {}]

Has(t, x) == x \in loc[t].f
With(l, x) == [l EXCEPT !.f = l.f \cup {x}]
Without(l, x) == [l EXCEPT !.f = l.f \ {x}]
WithRv(l, r) == [l EXCEPT !.rv = r]

\* the places where a thread is inside the monitor, or inside the agent
MonPcs ==
    {"suspend_mon", "abort_mon",
     "cd_stop_mon", "cd_dump_mon", "cd_reset_mon", "cd_start_mon",
     "save_stop_mon", "save_mig_mon", "save_start_mon",
     "sn_stop_mon", "sn_mem_mon", "sn_disk_mon", "sn_start_mon",
     "wd_dump_mon", "wd_start_mon",
     "md_mon", "commit_mon", "iotune_mon", "og_mon", "downtime_mon",
     "begin_mon", "confirm_mon", "wakeup_mon", "bj_mon", "bj_poll_mon"}
AgentPcs == {"sn_freeze_agent", "sn_thaw_agent", "cmd_agent"}

\* what EnterMonitor / EnterAgent records for the thread: the channel it
\* talks on, and "_eof" when the process was already gone at that time
Channel(p, v) ==
    IF p \in MonPcs THEN (IF v.alive THEN "monitor" ELSE "monitor_eof")
    ELSE IF p \in AgentPcs THEN (IF v.alive THEN "agent" ELSE "agent_eof")
    ELSE "none"

InMonitor(t) == mon[t] \in {"monitor", "monitor_eof"}
InAgent(t) == mon[t] \in {"agent", "agent_eof"}

\* the results the command of thread t can have: it can succeed only if the
\* process was there to receive it
MonResults(t) == IF mon[t] \in {"monitor", "agent"} THEN {"ok", "fail"} ELSE {"fail"}

\* qemuDomainObjEnterMonitorAsync(asyncJob) of thread t: the caller must own
\* the async job it names; the nested job is admitted like any job; the
\* domain must still be active.  "enter", or "fail" (-1)
EnterMonitorAsync(j, v, t, aj) ==
    IF /\ j.asyncJob = aj
       /\ j.asyncOwner = t
       /\ CanBeginNestedJob(j)
       /\ v.active
    THEN "enter" ELSE "fail"

\* qemuDomainObjExitMonitor: the nested job, if any, ends with the command
ExitMonitor(j) == IF j.active = QEMU_JOB_ASYNC_NESTED THEN EndJob(j) ELSE j

\* qemuProcessStopCPUs / qemuProcessStartCPUs once the command succeeded
SetState(v, s) == IF v.active THEN [v EXCEPT !.state = s] ELSE v

\* thread t reaches its next blocking point p with locals l
Goto(t, p, l, j, v) ==
    /\ pc' = [pc EXCEPT ![t] = p]
    /\ loc' = [loc EXCEPT ![t] = l]
    /\ ret' = [ret EXCEPT ![t] = "none"]
    /\ mon' = [mon EXCEPT ![t] = Channel(p, v)]
    /\ job' = j
    /\ vm' = v
    /\ UNCHANGED img

\* the operation of thread t returns r to its caller
Return(t, r, j, v) ==
    /\ pc' = [pc EXCEPT ![t] = "idle"]
    /\ loc' = [loc EXCEPT ![t] = NoLoc]
    /\ ret' = [ret EXCEPT ![t] = r]
    /\ mon' = [mon EXCEPT ![t] = "none"]
    /\ job' = j
    /\ vm' = v
    /\ UNCHANGED img

\* an idle thread is handed operation o
Start(t, o) ==
    /\ pc[t] = "idle"
    /\ calls < MaxCalls
    /\ calls' = calls + 1
    /\ op' = [op EXCEPT ![t] = o]

\* thread t is at place p of operation o
At(t, o, p) ==
    /\ pc[t] = p
    /\ op[t] = o
    /\ UNCHANGED <<op, calls>>

\* thread t calls qemuDomainObjEnterMonitorAsync(aj): it is inside the
\* monitor (place pmon) at once if the call succeeds now, and inside the
\* call (place penter) otherwise
EnterAsync(t, aj, penter, pmon, l, j, v) ==
    IF EnterMonitorAsync(j, v, t, aj) = "enter"
    THEN Goto(t, pmon, l, BeginJob(j, t, QEMU_JOB_ASYNC_NESTED), v)
    ELSE Goto(t, penter, l, j, v)

\* ------------------------------------------------------------ qemudDomainSuspend

SuspendBody(t, j, v) ==
    IF ~v.active
    THEN Return(t, "fail", EndJob(j), Unref(v))
    ELSE IF v.state # "paused"
         THEN Goto(t, "suspend_mon", NoLoc, j, v)
         ELSE \E s \in {"ok", "fail"} : Return(t, s, EndJob(j), Unref(v))

\* qemudDomainSuspend going on although BeginJob failed
SuspendStartIgnoringBeginJob(t) ==
    /\ Start(t, "Suspend")
    /\ UNCHANGED closeCb
    /\ IF ~vm.inStore \/ ~vm.active
       THEN Return(t, "fail", job, vm)
       ELSE IF CanBeginJob(job, QEMU_JOB_SUSPEND)
            THEN SuspendBody(t, BeginJob(job, t, QEMU_JOB_SUSPEND), Ref(vm))
            ELSE SuspendBody(t, job, vm)

SuspendStart(t) ==
    /\ Start(t, "Suspend")
    /\ UNCHANGED closeCb
    /\ IF ~vm.inStore \/ ~vm.active
       THEN Return(t, "fail", job, vm)
       ELSE IF CanBeginJob(job, QEMU_JOB_SUSPEND)
            THEN SuspendBody(t, BeginJob(job, t, QEMU_JOB_SUSPEND), Ref(vm))
            ELSE Goto(t, "wait", NoLoc, job, Ref(vm))

SuspendAdmit(t) ==
    /\ At(t, "Suspend", "wait")
    /\ UNCHANGED closeCb
    /\ CanBeginJob(job, QEMU_JOB_SUSPEND)
    /\ SuspendBody(t, BeginJob(job, t, QEMU_JOB_SUSPEND), vm)

SuspendMon(t) ==
    /\ At(t, "Suspend", "suspend_mon")
    /\ UNCHANGED closeCb
    /\ \E r \in MonResults(t) :
         IF r = "fail"
         THEN Return(t, "fail", EndJob(job), Unref(vm))
         ELSE \E s \in {"ok", "fail"} :
                Return(t, s, EndJob(job), Unref(SetState(vm, "paused")))

qemudDomainSuspend(t) == SuspendStart(t) \/ SuspendAdmit(t) \/ SuspendMon(t)

\* ------------------------------------------------------------ qemuDomainAbortJob

\* the error qemuDomainAbortJob reports once it holds its job, "none" when
\* it goes on to cancel
AbortJobError(j, v) ==
    IF ~v.active
    THEN "domain is not running"
    ELSE IF j.asyncJob = QEMU_ASYNC_JOB_NONE \/ j.dump_memory_only
         THEN "no job is active on the domain"
         ELSE IF j.asyncJob = QEMU_ASYNC_JOB_MIGRATION_IN
              THEN "cannot abort incoming migration"
              ELSE "none"

AbortJobBody(t, j, v) ==
    IF AbortJobError(j, v) # "none"
    THEN Return(t, "fail", EndJob(j), Unref(v))
    ELSE Goto(t, "abort_mon", NoLoc, AbortAsyncJob(j), v)

AbortJobStart(t) ==
    /\ Start(t, "AbortJob")
    /\ UNCHANGED closeCb
    /\ IF ~vm.inStore
       THEN Return(t, "fail", job, vm)
       ELSE IF CanBeginJob(job, QEMU_JOB_ABORT)
            THEN AbortJobBody(t, BeginJob(job, t, QEMU_JOB_ABORT), Ref(vm))
            ELSE Goto(t, "wait", NoLoc, job, Ref(vm))

AbortJobAdmit(t) ==
    /\ At(t, "AbortJob", "wait")
    /\ UNCHANGED closeCb
    /\ CanBeginJob(job, QEMU_JOB_ABORT)
    /\ AbortJobBody(t, BeginJob(job, t, QEMU_JOB_ABORT), vm)

AbortJobMonEndingAsync(t) ==
    /\ At(t, "AbortJob", "abort_mon")
    /\ UNCHANGED closeCb
    /\ \E r \in MonResults(t) : Return(t, r, EndAsyncJob(EndJob(job)), Unref(vm))

AbortJobMon(t) ==
    /\ At(t, "AbortJob", "abort_mon")
    /\ UNCHANGED closeCb
    /\ \E r \in MonResults(t) : Return(t, r, EndJob(job), Unref(vm))

qemuDomainAbortJob(t) == AbortJobStart(t) \/ AbortJobAdmit(t) \/ AbortJobMon(t)

\* ------------------------------------------------------------ qemuDomainGetJobInfo

\* info->type as the caller reads it from a copy of priv->job.info
JobInfoType(i) ==
    IF i = "NONE" THEN "VIR_DOMAIN_JOB_NONE" ELSE "VIR_DOMAIN_JOB_UNBOUNDED"

\* what qemuDomainGetJobInfo can report on job state j of domain v: the
\* type of the copied priv->job.info ("error" when the clock cannot be
\* read), VIR_DOMAIN_JOB_NONE from the else branch, "error" for a domain
\* that is not found or not running
qemuDomainGetJobInfoTypes(j, v) ==
    IF ~v.inStore \/ ~v.active
    THEN {"error"}
    ELSE IF j.asyncJob # QEMU_ASYNC_JOB_NONE /\ ~j.dump_memory_only
         THEN {JobInfoType(j.info), "error"}
         ELSE {"VIR_DOMAIN_JOB_NONE"}

\* the call takes no job: it reads the Job State under the domain lock and
\* returns; the type it reported is kept with the thread
qemuDomainGetJobInfo(t) ==
    /\ Start(t, "GetJobInfo")
    /\ \E ty \in qemuDomainGetJobInfoTypes(job, vm) :
         /\ ret' = [ret EXCEPT ![t] = IF ty = "error" THEN "fail" ELSE "ok"]
         /\ loc' = [loc EXCEPT ![t] = With(NoLoc, ty)]
    /\ UNCHANGED <<vm, job, mon, closeCb, img, pc>>

\* ------------------------------------------------------------ qemudDomainCoreDump

\* from `if (qemuDomainObjEndAsyncJob(driver, vm) == 0)` to the return
CoreDumpFinish(t, rv, crashed, j, v) ==
    LET v1 == Unref(v) IN
    IF v1.refs = 0
    THEN Return(t, rv, EndAsyncJob(j), v1)
    ELSE IF crashed /\ ~v1.persistent
         THEN Return(t, rv, EndAsyncJob(j), qemuDomainRemoveInactive(v1))
         ELSE Return(t, rv, EndAsyncJob(j), v1)

\* the resume of the CPUs at the end of the dump
CoreDumpResume(t, l, j, v) ==
    IF "resume" \in l.f
    THEN EnterAsync(t, QEMU_ASYNC_JOB_DUMP, "cd_start_enter", "cd_start_mon", l, j, v)
    ELSE CoreDumpFinish(t, l.rv, FALSE, j, v)

\* label endjob, with the flags VIR_DUMP_CRASH and VIR_DUMP_RESET of the call
CoreDumpEndjob(t, l, j, v) ==
    \E crash \in BOOLEAN, reset \in BOOLEAN :
      IF l.rv = "ok" /\ crash
      THEN CoreDumpFinish(t, l.rv, TRUE, j, qemuProcessStop(v))
      ELSE IF (("resume" \in l.f /\ "paused" \in l.f) \/ reset) /\ v.active
           THEN IF l.rv = "ok" /\ reset
                THEN Goto(t, "cd_reset_mon", l, j, v)
                ELSE CoreDumpResume(t, l, j, v)
           ELSE CoreDumpFinish(t, l.rv, FALSE, j, v)

\* doCoreDump up to its monitor command: the file cannot be created, or the
\* memory is dumped (VIR_DUMP_MEMORY_ONLY, qemuDumpToFd) or migrated to it
doCoreDump(t, l, j, v) ==
    \E how \in {"nofile", "nodump", "memory_only", "migrate"} :
      IF how \in {"nofile", "nodump"}
      THEN CoreDumpEndjob(t, l, j, v)
      ELSE LET j1 == IF how = "memory_only"
                     THEN [j EXCEPT !.dump_memory_only = TRUE] ELSE j
           IN EnterAsync(t, QEMU_ASYNC_JOB_DUMP, "cd_dump_enter", "cd_dump_mon", l, j1, v)

\* the body, once the DUMP job is held
CoreDumpBody(t, j, v) ==
    IF ~v.active
    THEN CoreDumpEndjob(t, NoLoc, j, v)
    ELSE LET l == IF v.state = "running" THEN With(NoLoc, "resume") ELSE NoLoc IN
         \E live \in BOOLEAN :
           IF ~live /\ v.state = "running"
           THEN IF EnterMonitorAsync(j, v, t, QEMU_ASYNC_JOB_DUMP) = "enter"
                THEN Goto(t, "cd_stop_mon", l,
                          BeginJob(j, t, QEMU_JOB_ASYNC_NESTED), v)
                ELSE CoreDumpEndjob(t, l, j, v)
           ELSE doCoreDump(t, l, j, v)

CoreDumpStart(t) ==
    /\ Start(t, "CoreDump")
    /\ UNCHANGED closeCb
    /\ IF ~vm.inStore
       THEN Return(t, "fail", job, vm)
       ELSE IF CanBeginAsyncJob(job)
            THEN CoreDumpBody(t, BeginAsyncJob(job, t, QEMU_ASYNC_JOB_DUMP), Ref(vm))
            ELSE Goto(t, "wait", NoLoc, job, Ref(vm))

CoreDumpAdmit(t) ==
    /\ At(t, "CoreDump", "wait")
    /\ UNCHANGED closeCb
    /\ CanBeginAsyncJob(job)
    /\ CoreDumpBody(t, BeginAsyncJob(job, t, QEMU_ASYNC_JOB_DUMP), vm)

\* qemuProcessStopCPUs: the command ends
CoreDumpStopMon(t) ==
    /\ At(t, "CoreDump", "cd_stop_mon")
    /\ UNCHANGED closeCb
    /\ \E r \in MonResults(t) :
         IF r = "fail"
         THEN CoreDumpEndjob(t, loc[t], ExitMonitor(job), vm)
         ELSE IF ~vm.active
              THEN CoreDumpEndjob(t, With(loc[t], "paused"), ExitMonitor(job), vm)
              ELSE doCoreDump(t, With(loc[t], "paused"), ExitMonitor(job),
                              SetState(vm, "paused"))

CoreDumpDumpEnter(t) ==
    /\ At(t, "CoreDump", "cd_dump_enter")
    /\ UNCHANGED closeCb
    /\ IF EnterMonitorAsync(job, vm, t, QEMU_ASYNC_JOB_DUMP) = "enter"
       THEN Goto(t, "cd_dump_mon", loc[t], BeginJob(job, t, QEMU_JOB_ASYNC_NESTED), vm)
       ELSE CoreDumpEndjob(t, loc[t], job, vm)

CoreDumpDumpMon(t) ==
    /\ At(t, "CoreDump", "cd_dump_mon")
    /\ UNCHANGED closeCb
    /\ \E r \in MonResults(t) :
         IF r = "fail"
         THEN CoreDumpEndjob(t, loc[t], ExitMonitor(job), vm)
         ELSE CoreDumpEndjob(t, WithRv(With(loc[t], "paused"), "ok"),
                             ExitMonitor(job), vm)

\* VIR_DUMP_RESET: qemuMonitorSystemReset between EnterMonitorWithDriver and
\* ExitMonitorWithDriver
CoreDumpResetMon(t) ==
    /\ At(t, "CoreDump", "cd_reset_mon")
    /\ UNCHANGED closeCb
    /\ \E r \in MonResults(t) :
         CoreDumpResume(t, WithRv(loc[t], r), ExitMonitor(job), vm)

CoreDumpStartEnter(t) ==
    /\ At(t, "CoreDump", "cd_start_enter")
    /\ UNCHANGED closeCb
    /\ IF EnterMonitorAsync(job, vm, t, QEMU_ASYNC_JOB_DUMP) = "enter"
       THEN Goto(t, "cd_start_mon", loc[t], BeginJob(job, t, QEMU_JOB_ASYNC_NESTED), vm)
       ELSE CoreDumpFinish(t, loc[t].rv, FALSE, job, vm)

CoreDumpStartMon(t) ==
    /\ At(t, "CoreDump", "cd_start_mon")
    /\ UNCHANGED closeCb
    /\ \E r \in MonResults(t) :
         CoreDumpFinish(t, loc[t].rv, FALSE, ExitMonitor(job),
                        IF r = "ok" THEN SetState(vm, "running") ELSE vm)

qemudDomainCoreDump(t) ==
    \/ CoreDumpStart(t) \/ CoreDumpAdmit(t)
    \/ CoreDumpStopMon(t)
    \/ CoreDumpDumpEnter(t) \/ CoreDumpDumpMon(t)
    \/ CoreDumpResetMon(t)
    \/ CoreDumpStartEnter(t) \/ CoreDumpStartMon(t)

\* ------------------------------------------------------------ qemuDomainSaveInternal

SaveOps == {"Save", "ManagedSave"}

AtSave(t, p) ==
    /\ pc[t] = p
    /\ op[t] \in SaveOps
    /\ UNCHANGED <<op, calls, closeCb>>

\* the end of label endjob: EndAsyncJob, then cleanup, where the object is
\* unlocked.  Back in qemuDomainManagedSave a successful save is followed by
\* `vm->hasManagedSave = true`, a store through the caller's pointer: into
\* freed memory if EndAsyncJob dropped the last reference, and otherwise into
\* the object the thread has unlocked (place ms_flag)
SaveFinish(t, rv, j, v) ==
    LET v1 == Unref(v) IN
    IF op[t] = "ManagedSave" /\ rv = "ok"
    THEN IF v1.refs > 0
         THEN Goto(t, "ms_flag", NoLoc, EndAsyncJob(j), v1)
         ELSE \E landed \in BOOLEAN :
                Return(t, rv, EndAsyncJob(j),
                       [v1 EXCEPT !.hasManagedSave = landed \/ @])
    ELSE Return(t, rv, EndAsyncJob(j), v1)

\* label endjob with ret != 0
SaveEndjob(t, l, j, v) ==
    IF "was_running" \in l.f /\ v.active
    THEN EnterAsync(t, QEMU_ASYNC_JOB_SAVE, "save_start_enter", "save_start_mon", l, j, v)
    ELSE SaveFinish(t, "fail", j, v)

\* from the flags VIR_DOMAIN_SAVE_RUNNING / PAUSED to the migration to file
\* of qemuDomainSaveMemory
SaveAfterPause(t, l, j, v) ==
    \E fl \in {"none", "running", "paused"}, how \in {"fail", "migrate"} :
      LET l1 == IF fl = "running" THEN With(l, "was_running")
                ELSE IF fl = "paused" THEN Without(l, "was_running") ELSE l
      IN IF how = "fail"
         THEN SaveEndjob(t, l1, j, v)
         ELSE EnterAsync(t, QEMU_ASYNC_JOB_SAVE, "save_mig_enter", "save_mig_mon", l1, j, v)

\* the code after qemuDomainObjBeginAsyncJobWithDriver.  The call's result is
\* tested, but the statement the test guards is the memset of job.info: the
\* code below runs whether the job was admitted or not
SaveBody(t, j, v) ==
    LET j1 == [j EXCEPT !.info = "UNBOUNDED"] IN
    IF v.state = "running"
    THEN EnterAsync(t, QEMU_ASYNC_JOB_SAVE, "save_stop_enter", "save_stop_mon",
                    With(NoLoc, "was_running"), j1, v)
    ELSE SaveAfterPause(t, NoLoc, j1, v)

\* qemuDomainSaveInternal up to the end of BeginAsyncJob
SaveInternal(t) ==
    \E precheck \in BOOLEAN :
      IF ~precheck
      THEN Return(t, "fail", job, vm)
      ELSE IF CanBeginAsyncJob(job)
           THEN SaveBody(t, BeginAsyncJob(job, t, QEMU_ASYNC_JOB_SAVE), Ref(vm))
           ELSE Goto(t, "wait", NoLoc, job, Ref(vm))

\* qemuDomainSaveFlags
SaveStart(t) ==
    /\ Start(t, "Save")
    /\ UNCHANGED closeCb
    /\ IF ~vm.inStore \/ ~vm.active
       THEN Return(t, "fail", job, vm)
       ELSE SaveInternal(t)

\* qemuDomainManagedSave
ManagedSaveStart(t) ==
    /\ Start(t, "ManagedSave")
    /\ UNCHANGED closeCb
    /\ IF ~vm.inStore \/ ~vm.active \/ ~vm.persistent
       THEN Return(t, "fail", job, vm)
       ELSE SaveInternal(t)

SaveAdmit(t) ==
    /\ AtSave(t, "wait")
    /\ CanBeginAsyncJob(job)
    /\ SaveBody(t, BeginAsyncJob(job, t, QEMU_ASYNC_JOB_SAVE), vm)

\* BeginAsyncJob gives up and returns -1, having dropped its reference
SaveBeginFailed(t) ==
    /\ AtSave(t, "wait")
    /\ ~CanBeginAsyncJob(job)
    /\ SaveBody(t, job, Unref(vm))

SaveStopEnter(t) ==
    /\ AtSave(t, "save_stop_enter")
    /\ IF EnterMonitorAsync(job, vm, t, QEMU_ASYNC_JOB_SAVE) = "enter"
       THEN Goto(t, "save_stop_mon", loc[t], BeginJob(job, t, QEMU_JOB_ASYNC_NESTED), vm)
       ELSE SaveEndjob(t, loc[t], job, vm)

SaveStopMon(t) ==
    /\ AtSave(t, "save_stop_mon")
    /\ \E r \in MonResults(t) :
         IF r = "fail" \/ ~vm.active
         THEN SaveEndjob(t, loc[t], ExitMonitor(job), vm)
         ELSE SaveAfterPause(t, loc[t], ExitMonitor(job), SetState(vm, "paused"))

SaveMigEnter(t) ==
    /\ AtSave(t, "save_mig_enter")
    /\ IF EnterMonitorAsync(job, vm, t, QEMU_ASYNC_JOB_SAVE) = "enter"
       THEN Goto(t, "save_mig_mon", loc[t], BeginJob(job, t, QEMU_JOB_ASYNC_NESTED), vm)
       ELSE SaveEndjob(t, loc[t], job, vm)

\* the migration to file ends; on success the header is touched up
\* (which can fail), the domain is shut down and a transient one removed
SaveMigMon(t) ==
    /\ AtSave(t, "save_mig_mon")
    /\ \E r \in MonResults(t), touched \in BOOLEAN :
         IF r = "fail" \/ ~touched
         THEN SaveEndjob(t, loc[t], ExitMonitor(job), vm)
         ELSE LET v1 == qemuProcessStop(vm) IN
              IF ~v1.persistent
              THEN IF Unref(v1).refs > 0
                   THEN Return(t, "ok", EndAsyncJob(ExitMonitor(job)),
                               qemuDomainRemoveInactive(Unref(v1)))
                   ELSE Return(t, "ok", EndAsyncJob(ExitMonitor(job)), Unref(v1))
              ELSE SaveFinish(t, "ok", ExitMonitor(job), v1)

SaveStartEnter(t) ==
    /\ AtSave(t, "save_start_enter")
    /\ IF EnterMonitorAsync(job, vm, t, QEMU_ASYNC_JOB_SAVE) = "enter"
       THEN Goto(t, "save_start_mon", loc[t], BeginJob(job, t, QEMU_JOB_ASYNC_NESTED), vm)
       ELSE SaveFinish(t, "fail", job, vm)

SaveStartMon(t) ==
    /\ AtSave(t, "save_start_mon")
    /\ \E r \in MonResults(t) :
         SaveFinish(t, "fail", ExitMonitor(job),
                    IF r = "ok" THEN SetState(vm, "running") ELSE vm)

\* qemuDomainManagedSave after qemuDomainSaveInternal has returned 0:
\* `vm->hasManagedSave = true`, on an object that is no longer locked and
\* that another thread may have freed in the meantime
ManagedSaveFlag(t) ==
    /\ AtSave(t, "ms_flag")
    /\ IF vm.refs > 0
       THEN Return(t, "ok", job, [vm EXCEPT !.hasManagedSave = TRUE])
       ELSE \E landed \in BOOLEAN :
              Return(t, "ok", job, [vm EXCEPT !.hasManagedSave = landed \/ @])

qemuDomainSave(t) ==
    \/ SaveStart(t) \/ ManagedSaveStart(t)
    \/ SaveAdmit(t) \/ SaveBeginFailed(t)
    \/ SaveStopEnter(t) \/ SaveStopMon(t)
    \/ SaveMigEnter(t) \/ SaveMigMon(t)
    \/ SaveStartEnter(t) \/ SaveStartMon(t)
    \/ ManagedSaveFlag(t)

\* ------------------------------------------------------------ qemuDomainSnapshotCreateActiveExternal

AtSnap(t, p) ==
    /\ At(t, "Snapshot", p)
    /\ UNCHANGED closeCb

\* `if (vm && !qemuDomainObjEndAsyncJob(driver, vm))`, then cleanup
SnapFinish(t, l, j, v) ==
    Return(t, IF Unref(v).refs = 0 THEN "fail" ELSE l.rv, EndAsyncJob(j), Unref(v))

\* `if (vm && thaw != 0 && qemuDomainSnapshotFSThaw(...) < 0)`: the helper
\* fails at once when the agent is not available; a domain that is not
\* active has no agent, and an agent that was missing for the freeze is
\* missing for the thaw
SnapThaw(t, l, j, v) ==
    IF l.f \cap {"thaw_ok", "thaw_fail"} # {}
    THEN \E agent \in BOOLEAN :
           IF agent /\ v.active /\ "noagent" \notin l.f
           THEN Goto(t, "sn_thaw_agent", l, j, v)
           ELSE SnapFinish(t, IF "thaw_ok" \in l.f THEN WithRv(l, "fail") ELSE l, j, v)
    ELSE SnapFinish(t, l, j, v)

\* label endjob
SnapEndjob(t, l, j, v) ==
    IF "resume" \in l.f /\ v.active
    THEN EnterAsync(t, QEMU_ASYNC_JOB_SNAPSHOT, "sn_start_enter", "sn_start_mon", l, j, v)
    ELSE SnapThaw(t, l, j, v)

\* qemuDomainSnapshotCreateDiskActive up to its monitor commands
SnapDisk(t, l, j, v) ==
    \E cgroup \in BOOLEAN :
      IF ~v.active \/ ~cgroup
      THEN SnapEndjob(t, WithRv(l, "fail"), j, v)
      ELSE EnterAsync(t, QEMU_ASYNC_JOB_SNAPSHOT, "sn_disk_enter", "sn_disk_mon", l, j, v)

\* `if (memory)`: the mask is widened for the memory step
SnapMemory(t, l, j, v) ==
    IF "memory" \in l.f
    THEN \E how \in {"fail", "migrate"} :
           IF how = "fail"
           THEN SnapEndjob(t, l, SetAsyncJobMask(j, WIDE_JOB_MASK), v)
           ELSE EnterAsync(t, QEMU_ASYNC_JOB_SNAPSHOT, "sn_mem_enter", "sn_mem_mon",
                           l, SetAsyncJobMask(j, WIDE_JOB_MASK), v)
    ELSE SnapDisk(t, l, j, v)

\* `if (virDomainObjGetState(vm, NULL) == VIR_DOMAIN_RUNNING)`
SnapPause(t, l, j, v) ==
    IF v.state = "running"
    THEN \E pause \in BOOLEAN :
           IF pause
           THEN EnterAsync(t, QEMU_ASYNC_JOB_SNAPSHOT, "sn_stop_enter", "sn_stop_mon",
                           With(l, "resume"), j, v)
           ELSE SnapMemory(t, With(l, "resume"), j, v)
    ELSE SnapMemory(t, l, j, v)

\* the body, once the SNAPSHOT job is held: quiesce (disk-only), disk-only,
\* or with memory
SnapBody(t, j, v) ==
    \E kind \in {"quiesce", "disk", "memory"}, agent \in BOOLEAN :
      IF kind = "quiesce"
      THEN IF agent /\ v.active
           THEN Goto(t, "sn_freeze_agent", NoLoc, j, v)
           ELSE SnapEndjob(t, With(With(NoLoc, "thaw_fail"), "noagent"), j, v)
      ELSE SnapPause(t, IF kind = "memory" THEN With(NoLoc, "memory") ELSE NoLoc, j, v)

\* qemuDomainSnapshotCreateXML up to the end of BeginAsyncJob
SnapStart(t) ==
    /\ Start(t, "Snapshot")
    /\ UNCHANGED closeCb
    /\ \E precheck \in BOOLEAN :
         IF ~vm.inStore \/ ~vm.active \/ ~precheck
         THEN Return(t, "fail", job, vm)
         ELSE IF CanBeginAsyncJob(job)
              THEN SnapBody(t, BeginAsyncJob(job, t, QEMU_ASYNC_JOB_SNAPSHOT), Ref(vm))
              ELSE Goto(t, "wait", NoLoc, job, Ref(vm))

SnapAdmit(t) ==
    /\ AtSnap(t, "wait")
    /\ CanBeginAsyncJob(job)
    /\ SnapBody(t, BeginAsyncJob(job, t, QEMU_ASYNC_JOB_SNAPSHOT), vm)

\* qemuDomainSnapshotFSFreeze between EnterAgent and ExitAgent
SnapFreezeAgent(t) ==
    /\ AtSnap(t, "sn_freeze_agent")
    /\ \E r \in MonResults(t) :
         IF r = "fail"
         THEN SnapEndjob(t, With(loc[t], "thaw_fail"), job, vm)
         ELSE SnapPause(t, With(loc[t], "thaw_ok"), job, vm)

SnapStopEnter(t) ==
    /\ AtSnap(t, "sn_stop_enter")
    /\ IF EnterMonitorAsync(job, vm, t, QEMU_ASYNC_JOB_SNAPSHOT) = "enter"
       THEN Goto(t, "sn_stop_mon", loc[t], BeginJob(job, t, QEMU_JOB_ASYNC_NESTED), vm)
       ELSE SnapEndjob(t, loc[t], job, vm)

SnapStopMon(t) ==
    /\ AtSnap(t, "sn_stop_mon")
    /\ \E r \in MonResults(t) :
         IF r = "fail" \/ ~vm.active
         THEN SnapEndjob(t, loc[t], ExitMonitor(job), vm)
         ELSE SnapMemory(t, loc[t], ExitMonitor(job), SetState(vm, "paused"))

SnapMemEnter(t) ==
    /\ AtSnap(t, "sn_mem_enter")
    /\ IF EnterMonitorAsync(job, vm, t, QEMU_ASYNC_JOB_SNAPSHOT) = "enter"
       THEN Goto(t, "sn_mem_mon", loc[t], BeginJob(job, t, QEMU_JOB_ASYNC_NESTED), vm)
       ELSE SnapEndjob(t, loc[t], job, vm)

\* the memory is written; then `forbid any further manipulation`
SnapMemMon(t) ==
    /\ AtSnap(t, "sn_mem_mon")
    /\ \E r \in MonResults(t), touched \in BOOLEAN :
         IF r = "fail" \/ ~touched
         THEN SnapEndjob(t, loc[t], ExitMonitor(job), vm)
         ELSE SnapDisk(t, loc[t],
                       SetAsyncJobMask(ExitMonitor(job), DEFAULT_JOB_MASK), vm)

SnapDiskEnter(t) ==
    /\ AtSnap(t, "sn_disk_enter")
    /\ IF EnterMonitorAsync(job, vm, t, QEMU_ASYNC_JOB_SNAPSHOT) = "enter"
       THEN Goto(t, "sn_disk_mon", loc[t], BeginJob(job, t, QEMU_JOB_ASYNC_NESTED), vm)
       ELSE SnapEndjob(t, WithRv(loc[t], "fail"), job, vm)

\* the disks are switched; the status is saved; VIR_DOMAIN_SNAPSHOT_CREATE_HALT
\* (persistent domains only) stops the domain and ends the job at once
SnapDiskMon(t) ==
    /\ AtSnap(t, "sn_disk_mon")
    /\ \E r \in MonResults(t), saved \in BOOLEAN, halt \in BOOLEAN :
         IF r = "fail" \/ ~saved
         THEN SnapEndjob(t, WithRv(loc[t], "fail"), ExitMonitor(job), vm)
         ELSE IF halt /\ vm.persistent
              THEN Return(t, "ok", EndAsyncJob(ExitMonitor(job)),
                          Unref(qemuProcessStop(vm)))
              ELSE SnapEndjob(t, WithRv(loc[t], "ok"), ExitMonitor(job), vm)

\* qemuProcessStartCPUs at endjob fails in EnterMonitorAsync: `return -1`
SnapStartEnter(t) ==
    /\ AtSnap(t, "sn_start_enter")
    /\ IF EnterMonitorAsync(job, vm, t, QEMU_ASYNC_JOB_SNAPSHOT) = "enter"
       THEN Goto(t, "sn_start_mon", loc[t], BeginJob(job, t, QEMU_JOB_ASYNC_NESTED), vm)
       ELSE Return(t, "fail", job, vm)

\* qemuProcessStartCPUs at endjob: on failure `return -1`
SnapStartMon(t) ==
    /\ AtSnap(t, "sn_start_mon")
    /\ \E r \in MonResults(t) :
         IF r = "fail"
         THEN Return(t, "fail", ExitMonitor(job), vm)
         ELSE SnapThaw(t, loc[t], ExitMonitor(job), SetState(vm, "running"))

\* qemuDomainSnapshotFSThaw between EnterAgent and ExitAgent
SnapThawAgent(t) ==
    /\ AtSnap(t, "sn_thaw_agent")
    /\ \E r \in MonResults(t) :
         SnapFinish(t, IF r = "fail" /\ "thaw_ok" \in loc[t].f
                       THEN WithRv(loc[t], "fail") ELSE loc[t], job, vm)

qemuDomainSnapshotCreateXML(t) ==
    \/ SnapStart(t) \/ SnapAdmit(t)
    \/ SnapFreezeAgent(t)
    \/ SnapStopEnter(t) \/ SnapStopMon(t)
    \/ SnapMemEnter(t) \/ SnapMemMon(t)
    \/ SnapDiskEnter(t) \/ SnapDiskMon(t)
    \/ SnapStartEnter(t) \/ SnapStartMon(t)
    \/ SnapThawAgent(t)

\* ------------------------------------------------------------ processWatchdogEvent

AtWatchdog(t, p) ==
    /\ At(t, "Watchdog", p)
    /\ UNCHANGED closeCb

\* label endjob, then unlock: the job ends, the event's reference is dropped
WatchdogFinish(t, rv, j, v) == Return(t, rv, EndAsyncJob(j), Unref(Unref(v)))

\* the body, once the DUMP job is held
WatchdogBody(t, j, v) ==
    IF ~v.active
    THEN WatchdogFinish(t, "fail", j, v)
    ELSE \E file \in BOOLEAN :
           IF file /\ EnterMonitorAsync(j, v, t, QEMU_ASYNC_JOB_DUMP) = "enter"
           THEN Goto(t, "wd_dump_mon", NoLoc, BeginJob(j, t, QEMU_JOB_ASYNC_NESTED), v)
           ELSE EnterAsync(t, QEMU_ASYNC_JOB_DUMP, "wd_start_enter", "wd_start_mon",
                           NoLoc, j, v)

\* the watchdog of the running guest fired with action dump: the event
\* holds a reference on the domain
WatchdogStart(t) ==
    /\ Start(t, "Watchdog")
    /\ UNCHANGED closeCb
    /\ vm.inStore /\ vm.active /\ vm.alive
    /\ IF CanBeginAsyncJob(job)
       THEN WatchdogBody(t, BeginAsyncJob(job, t, QEMU_ASYNC_JOB_DUMP), Ref(Ref(vm)))
       ELSE Goto(t, "wait", NoLoc, job, Ref(Ref(vm)))

WatchdogAdmit(t) ==
    /\ AtWatchdog(t, "wait")
    /\ CanBeginAsyncJob(job)
    /\ WatchdogBody(t, BeginAsyncJob(job, t, QEMU_ASYNC_JOB_DUMP), vm)

\* BeginAsyncJob gives up: `goto unlock`
WatchdogBeginFailed(t) ==
    /\ AtWatchdog(t, "wait")
    /\ ~CanBeginAsyncJob(job)
    /\ Return(t, "fail", job, Unref(Unref(vm)))

\* doCoreDump ends; the CPUs are started whatever its result
WatchdogDumpMon(t) ==
    /\ AtWatchdog(t, "wd_dump_mon")
    /\ \E r \in MonResults(t) :
         EnterAsync(t, QEMU_ASYNC_JOB_DUMP, "wd_start_enter", "wd_start_mon",
                    WithRv(loc[t], r), ExitMonitor(job), vm)

WatchdogStartEnter(t) ==
    /\ AtWatchdog(t, "wd_start_enter")
    /\ IF EnterMonitorAsync(job, vm, t, QEMU_ASYNC_JOB_DUMP) = "enter"
       THEN Goto(t, "wd_start_mon", loc[t], BeginJob(job, t, QEMU_JOB_ASYNC_NESTED), vm)
       ELSE WatchdogFinish(t, "fail", job, vm)

WatchdogStartMon(t) ==
    /\ AtWatchdog(t, "wd_start_mon")
    /\ \E r \in MonResults(t) :
         IF r = "ok"
         THEN WatchdogFinish(t, loc[t].rv, ExitMonitor(job), SetState(vm, "running"))
         ELSE WatchdogFinish(t, "fail", ExitMonitor(job), vm)

processWatchdogEvent(t) ==
    \/ WatchdogStart(t) \/ WatchdogAdmit(t) \/ WatchdogBeginFailed(t)
    \/ WatchdogDumpMon(t)
    \/ WatchdogStartEnter(t) \/ WatchdogStartMon(t)

\* ------------------------------------------------------------ qemuDomainDestroyFlags

\* the body, once the DESTROY job is held
DestroyBody(t, j, v) ==
    LET v1 == [v EXCEPT !.beingDestroyed = FALSE] IN
    IF ~v1.active
    THEN Return(t, "fail", EndJob(j), Unref(v1))
    ELSE IF ~v1.persistent
         THEN IF Unref(v1).refs > 0
              THEN Return(t, "ok", EndJob(j),
                          qemuDomainRemoveInactive(Unref(qemuProcessStop(v1))))
              ELSE Return(t, "ok", EndJob(j), Unref(qemuProcessStop(v1)))
         ELSE Return(t, "ok", EndJob(j), Unref(qemuProcessStop(v1)))

\* the process is killed and beingDestroyed set before the job is asked for
DestroyStart(t) ==
    /\ Start(t, "Destroy")
    /\ UNCHANGED closeCb
    /\ \E killed \in BOOLEAN :
         IF ~vm.inStore \/ ~killed
         THEN Return(t, "fail", job, vm)
         ELSE LET v1 == [qemuProcessKill(vm) EXCEPT !.beingDestroyed = TRUE] IN
              IF CanBeginJob(job, QEMU_JOB_DESTROY)
              THEN DestroyBody(t, BeginJob(job, t, QEMU_JOB_DESTROY), Ref(v1))
              ELSE Goto(t, "wait", NoLoc, job, Ref(v1))

DestroyAdmit(t) ==
    /\ At(t, "Destroy", "wait")
    /\ UNCHANGED closeCb
    /\ CanBeginJob(job, QEMU_JOB_DESTROY)
    /\ DestroyBody(t, BeginJob(job, t, QEMU_JOB_DESTROY), vm)

qemuDomainDestroyFlags(t) == DestroyStart(t) \/ DestroyAdmit(t)

\* ------------------------------------------------------------ qemudDomainCreate

\* virDomainAssignDef: the store's object for the domain, created if the
\* store has none
virDomainAssignDef(v) ==
    IF v.inStore THEN v
    ELSE [inStore |-> TRUE, active |-> FALSE, alive |-> FALSE,
          state |-> "shutoff", persistent |-> FALSE,
          beingDestroyed |-> FALSE, blkdeviotune |-> "old", blockjob |-> "none",
               seclabels |-> <<>>,
               hasManagedSave |-> FALSE, refs |-> 1]

\* qemuProcessStart succeeded
qemuProcessStart(v, s) == [v EXCEPT !.active = TRUE, !.alive = TRUE, !.state = s]

\* the body, once the MODIFY job is held
CreateBody(t, j, v) ==
    \E started \in {"running", "paused", "fail"} :
      IF started = "fail"
      THEN IF Unref(v).refs > 0
           THEN Return(t, "fail", EndJob(j), qemuDomainRemoveInactive(Unref(v)))
           ELSE Return(t, "fail", EndJob(j), Unref(v))
      ELSE Return(t, "ok", EndJob(j), Unref(qemuProcessStart(v, started)))

\* the domain is put into the store before the job is asked for; a domain
\* that is active is a duplicate.  One domain object is modelled: a new one
\* is created only when the old one is gone and no thread works on it
CreateStart(t) ==
    /\ Start(t, "Create")
    /\ UNCHANGED closeCb
    /\ vm.inStore \/ (vm.refs = 0 /\ \A u \in Threads : pc[u] = "idle")
    /\ \E parsed \in BOOLEAN :
         IF ~parsed \/ (vm.inStore /\ vm.active)
         THEN Return(t, "fail", job, vm)
         ELSE LET j == IF vm.inStore THEN job ELSE NoJob IN
              IF CanBeginJob(j, QEMU_JOB_MODIFY)
              THEN CreateBody(t, BeginJob(j, t, QEMU_JOB_MODIFY), Ref(virDomainAssignDef(vm)))
              ELSE Goto(t, "wait", NoLoc, j, Ref(virDomainAssignDef(vm)))

CreateAdmit(t) ==
    /\ At(t, "Create", "wait")
    /\ UNCHANGED closeCb
    /\ CanBeginJob(job, QEMU_JOB_MODIFY)
    /\ CreateBody(t, BeginJob(job, t, QEMU_JOB_MODIFY), vm)

qemudDomainCreate(t) == CreateStart(t) \/ CreateAdmit(t)

\* ------------------------------------------------------------ qemuDomainModifyDeviceFlags

\* the body, once the MODIFY job is held.  flags: VIR_DOMAIN_AFFECT_LIVE and
\* VIR_DOMAIN_AFFECT_CONFIG (none of them: the current state of the domain)
ModifyDeviceBody(t, j, v) ==
    \E fl \in SUBSET {"live", "config"}, parsed \in BOOLEAN, caps \in BOOLEAN :
      LET live == "live" \in fl \/ (fl = {} /\ v.active)
          config == "config" \in fl \/ (fl = {} /\ ~v.active)
      IN IF (~v.active /\ live) \/ (config /\ ~v.persistent) \/ ~parsed
         THEN Return(t, "fail", EndJob(j), Unref(v))
         ELSE IF ~v.active /\ ~caps
              THEN Return(t, "fail", j, v)
              ELSE IF live
                   THEN Goto(t, "md_mon", NoLoc, j, v)
                   ELSE \E r \in {"ok", "fail"} : Return(t, r, EndJob(j), Unref(v))

ModifyDeviceStart(t) ==
    /\ Start(t, "ModifyDevice")
    /\ UNCHANGED closeCb
    /\ IF ~vm.inStore
       THEN Return(t, "fail", job, vm)
       ELSE IF CanBeginJob(job, QEMU_JOB_MODIFY)
            THEN ModifyDeviceBody(t, BeginJob(job, t, QEMU_JOB_MODIFY), Ref(vm))
            ELSE Goto(t, "wait", NoLoc, job, Ref(vm))

ModifyDeviceAdmit(t) ==
    /\ At(t, "ModifyDevice", "wait")
    /\ UNCHANGED closeCb
    /\ CanBeginJob(job, QEMU_JOB_MODIFY)
    /\ ModifyDeviceBody(t, BeginJob(job, t, QEMU_JOB_MODIFY), vm)

\* the live change ends; then the status and the config are saved
ModifyDeviceMon(t) ==
    /\ At(t, "ModifyDevice", "md_mon")
    /\ UNCHANGED closeCb
    /\ \E r \in MonResults(t), saved \in BOOLEAN :
         Return(t, IF saved THEN r ELSE "fail", EndJob(job), Unref(vm))

qemuDomainModifyDeviceFlags(t) ==
    ModifyDeviceStart(t) \/ ModifyDeviceAdmit(t) \/ ModifyDeviceMon(t)

\* ------------------------------------------------------------ qemuDomainBlockCommit

BlockCommitBody(t, j, v) ==
    \E prepared \in BOOLEAN :
      IF ~v.active \/ ~prepared
      THEN Return(t, "fail", EndJob(j), Unref(v))
      ELSE Goto(t, "commit_mon", NoLoc, j, v)

BlockCommitStart(t) ==
    /\ Start(t, "BlockCommit")
    /\ UNCHANGED closeCb
    /\ IF ~vm.inStore
       THEN Return(t, "fail", job, vm)
       ELSE IF CanBeginJob(job, QEMU_JOB_MODIFY)
            THEN BlockCommitBody(t, BeginJob(job, t, QEMU_JOB_MODIFY), Ref(vm))
            ELSE Goto(t, "wait", NoLoc, job, Ref(vm))

BlockCommitAdmit(t) ==
    /\ At(t, "BlockCommit", "wait")
    /\ UNCHANGED closeCb
    /\ CanBeginJob(job, QEMU_JOB_MODIFY)
    /\ BlockCommitBody(t, BeginJob(job, t, QEMU_JOB_MODIFY), vm)

BlockCommitMon(t) ==
    /\ At(t, "BlockCommit", "commit_mon")
    /\ UNCHANGED closeCb
    /\ \E r \in MonResults(t) : Return(t, r, EndJob(job), Unref(vm))

qemuDomainBlockCommit(t) ==
    BlockCommitStart(t) \/ BlockCommitAdmit(t) \/ BlockCommitMon(t)

\* ------------------------------------------------------------ qemuDomainSetBlockIoTune

\* the body, once the MODIFY job is held: virDomainLiveConfigHelperMethod
\* checks the flags against the domain as it is now
SetBlockIoTuneBody(t, j, v) ==
    \E fl \in SUBSET {"live", "config"} :
      LET live == "live" \in fl \/ (fl = {} /\ v.active)
          config == "config" \in fl \/ (fl = {} /\ ~v.active)
      IN IF (~v.active /\ live) \/ (config /\ ~v.persistent)
         THEN Return(t, "fail", EndJob(j), Unref(v))
         ELSE IF live
              THEN Goto(t, "iotune_mon", IF config THEN With(NoLoc, "config") ELSE NoLoc, j, v)
              ELSE \E r \in {"ok", "fail"} : Return(t, r, EndJob(j), Unref(v))

\* the capabilities of the running process and the disk are looked up
\* before the job is asked for
SetBlockIoTuneStart(t) ==
    /\ Start(t, "SetBlockIoTune")
    /\ UNCHANGED closeCb
    /\ \E device \in BOOLEAN :
         IF ~vm.inStore \/ ~vm.active \/ ~device
         THEN Return(t, "fail", job, vm)
         ELSE IF CanBeginJob(job, QEMU_JOB_MODIFY)
              THEN SetBlockIoTuneBody(t, BeginJob(job, t, QEMU_JOB_MODIFY), Ref(vm))
              ELSE Goto(t, "wait", NoLoc, job, Ref(vm))

SetBlockIoTuneAdmit(t) ==
    /\ At(t, "SetBlockIoTune", "wait")
    /\ UNCHANGED closeCb
    /\ CanBeginJob(job, QEMU_JOB_MODIFY)
    /\ SetBlockIoTuneBody(t, BeginJob(job, t, QEMU_JOB_MODIFY), vm)

SetBlockIoTuneMon(t) ==
    /\ At(t, "SetBlockIoTune", "iotune_mon")
    /\ UNCHANGED closeCb
    /\ \E r \in MonResults(t), saved \in BOOLEAN :
         IF r = "fail"
         THEN Return(t, "fail", EndJob(job), Unref(vm))
         ELSE Return(t, IF Has(t, "config") /\ ~saved THEN "fail" ELSE "ok",
                     EndJob(job), Unref([vm EXCEPT !.blkdeviotune = "new"]))

qemuDomainSetBlockIoTune(t) ==
    SetBlockIoTuneStart(t) \/ SetBlockIoTuneAdmit(t) \/ SetBlockIoTuneMon(t)

\* ------------------------------------------------------------ qemuDomainOpenGraphics

\* the domain is checked before the job is asked for; the monitor is
\* entered right after BeginJob
OpenGraphicsStart(t) ==
    /\ Start(t, "OpenGraphics")
    /\ UNCHANGED closeCb
    /\ \E graphics \in BOOLEAN :
         IF ~vm.inStore \/ ~vm.active \/ ~graphics
         THEN Return(t, "fail", job, vm)
         ELSE IF CanBeginJob(job, QEMU_JOB_MODIFY)
              THEN Goto(t, "og_mon", NoLoc, BeginJob(job, t, QEMU_JOB_MODIFY), Ref(vm))
              ELSE Goto(t, "wait", NoLoc, job, Ref(vm))

OpenGraphicsAdmit(t) ==
    /\ At(t, "OpenGraphics", "wait")
    /\ UNCHANGED closeCb
    /\ CanBeginJob(job, QEMU_JOB_MODIFY)
    /\ Goto(t, "og_mon", NoLoc, BeginJob(job, t, QEMU_JOB_MODIFY), vm)

OpenGraphicsMon(t) ==
    /\ At(t, "OpenGraphics", "og_mon")
    /\ UNCHANGED closeCb
    /\ \E r \in MonResults(t) : Return(t, r, EndJob(job), Unref(vm))

qemuDomainOpenGraphics(t) ==
    OpenGraphicsStart(t) \/ OpenGraphicsAdmit(t) \/ OpenGraphicsMon(t)

\* ------------------------------------------------------------ qemuDomainMigrateSetMaxDowntime

MigrateSetMaxDowntimeBody(t, j, v) ==
    IF ~v.active \/ j.asyncJob # QEMU_ASYNC_JOB_MIGRATION_OUT
    THEN Return(t, "fail", EndJob(j), Unref(v))
    ELSE Goto(t, "downtime_mon", NoLoc, j, v)

MigrateSetMaxDowntimeStart(t) ==
    /\ Start(t, "MigrateSetMaxDowntime")
    /\ UNCHANGED closeCb
    /\ IF ~vm.inStore
       THEN Return(t, "fail", job, vm)
       ELSE IF CanBeginJob(job, QEMU_JOB_MIGRATION_OP)
            THEN MigrateSetMaxDowntimeBody(t, BeginJob(job, t, QEMU_JOB_MIGRATION_OP), Ref(vm))
            ELSE Goto(t, "wait", NoLoc, job, Ref(vm))

MigrateSetMaxDowntimeAdmit(t) ==
    /\ At(t, "MigrateSetMaxDowntime", "wait")
    /\ UNCHANGED closeCb
    /\ CanBeginJob(job, QEMU_JOB_MIGRATION_OP)
    /\ MigrateSetMaxDowntimeBody(t, BeginJob(job, t, QEMU_JOB_MIGRATION_OP), vm)

MigrateSetMaxDowntimeMon(t) ==
    /\ At(t, "MigrateSetMaxDowntime", "downtime_mon")
    /\ UNCHANGED closeCb
    /\ \E r \in MonResults(t) : Return(t, r, EndJob(job), Unref(vm))

qemuDomainMigrateSetMaxDowntime(t) ==
    \/ MigrateSetMaxDowntimeStart(t)
    \/ MigrateSetMaxDowntimeAdmit(t)
    \/ MigrateSetMaxDowntimeMon(t)

\* ------------------------------------------------------------ qemuDomainAgentCommand

AgentCommandBody(t, j, v) ==
    IF ~v.active
    THEN Return(t, "fail", EndJob(j), Unref(v))
    ELSE Goto(t, "cmd_agent", NoLoc, j, v)

AgentCommandStart(t) ==
    /\ Start(t, "AgentCommand")
    /\ UNCHANGED closeCb
    /\ \E agent \in BOOLEAN :
         IF ~vm.inStore \/ ~vm.active \/ ~agent
         THEN Return(t, "fail", job, vm)
         ELSE IF CanBeginJob(job, QEMU_JOB_MODIFY)
              THEN AgentCommandBody(t, BeginJob(job, t, QEMU_JOB_MODIFY), Ref(vm))
              ELSE Goto(t, "wait", NoLoc, job, Ref(vm))

AgentCommandAdmit(t) ==
    /\ At(t, "AgentCommand", "wait")
    /\ UNCHANGED closeCb
    /\ CanBeginJob(job, QEMU_JOB_MODIFY)
    /\ AgentCommandBody(t, BeginJob(job, t, QEMU_JOB_MODIFY), vm)

AgentCommandAgent(t) ==
    /\ At(t, "AgentCommand", "cmd_agent")
    /\ UNCHANGED closeCb
    /\ \E r \in MonResults(t) : Return(t, r, EndJob(job), Unref(vm))

qemuDomainAgentCommand(t) ==
    AgentCommandStart(t) \/ AgentCommandAdmit(t) \/ AgentCommandAgent(t)

\* ------------------------------------------------------------ qemuDomainPMWakeup

\* after BeginJob: the domain must be running and QEMU must know the
\* system_wakeup command, else `goto endjob`
PMWakeupBody(t, j, v) ==
    IF ~v.active
    THEN Return(t, "fail", EndJob(j), Unref(v))
    ELSE \E caps \in BOOLEAN :
           IF ~caps
           THEN Return(t, "fail", EndJob(j), Unref(v))
           ELSE Goto(t, "wakeup_mon", NoLoc, j, v)

PMWakeupStart(t) ==
    /\ Start(t, "PMWakeup")
    /\ UNCHANGED closeCb
    /\ IF ~vm.inStore
       THEN Return(t, "fail", job, vm)
       ELSE IF CanBeginJob(job, QEMU_JOB_MODIFY)
            THEN PMWakeupBody(t, BeginJob(job, t, QEMU_JOB_MODIFY), Ref(vm))
            ELSE Goto(t, "wait", NoLoc, job, Ref(vm))

PMWakeupAdmit(t) ==
    /\ At(t, "PMWakeup", "wait")
    /\ UNCHANGED closeCb
    /\ CanBeginJob(job, QEMU_JOB_MODIFY)
    /\ PMWakeupBody(t, BeginJob(job, t, QEMU_JOB_MODIFY), vm)

\* qemuDomainPMWakeup leaving the monitor by `goto cleanup`
PMWakeupMonSkippingEndJob(t) ==
    /\ At(t, "PMWakeup", "wakeup_mon")
    /\ UNCHANGED closeCb
    /\ \E r \in MonResults(t) : Return(t, r, job, vm)

PMWakeupMon(t) ==
    /\ At(t, "PMWakeup", "wakeup_mon")
    /\ UNCHANGED closeCb
    /\ \E r \in MonResults(t) : Return(t, r, EndJob(job), Unref(vm))

qemuDomainPMWakeup(t) == PMWakeupStart(t) \/ PMWakeupAdmit(t) \/ PMWakeupMon(t)

\* ------------------------------------------------------------ qemuDomainBlockJobImpl

\* the modes of qemuDomainBlockJobImpl (block copy and pivot are left out:
\* the disk has no mirror)
BlockJobModes == {"BLOCK_JOB_PULL", "BLOCK_JOB_ABORT", "BLOCK_JOB_INFO"}

\* after BeginJob: the domain must still be running, then the command is
\* sent to the monitor
BlockJobBody(t, l, j, v) ==
    IF ~v.active
    THEN Return(t, "fail", EndJob(j), Unref(v))
    ELSE Goto(t, "bj_mon", l, j, v)

\* the checks before the job: the domain is found and running, QEMU has
\* block jobs (asynchronous ones, or only synchronous ones), the disk is
\* found; then BeginJob(MODIFY).  The flag VIR_DOMAIN_BLOCK_JOB_ABORT_ASYNC
\* is kept as "abort_async"
BlockJobStart(t) ==
    /\ Start(t, "BlockJob")
    /\ UNCHANGED closeCb
    /\ \E mode \in BlockJobModes, caps \in {"async", "sync", "none"},
          found \in BOOLEAN, fl \in SUBSET {"abort_async"} :
         IF ~vm.inStore \/ ~vm.active \/ caps = "none" \/ ~found
         THEN Return(t, "fail", job, vm)
         ELSE LET l == [NoLoc EXCEPT !.f = {mode, caps} \cup fl] IN
              IF CanBeginJob(job, QEMU_JOB_MODIFY)
              THEN BlockJobBody(t, l, BeginJob(job, t, QEMU_JOB_MODIFY), Ref(vm))
              ELSE Goto(t, "wait", l, job, Ref(vm))

BlockJobAdmit(t) ==
    /\ At(t, "BlockJob", "wait")
    /\ UNCHANGED closeCb
    /\ CanBeginJob(job, QEMU_JOB_MODIFY)
    /\ BlockJobBody(t, loc[t], BeginJob(job, t, QEMU_JOB_MODIFY), vm)

\* qemuMonitorBlockJob(mode) has returned.  QEMU starts a block job only
\* on a disk that has none and cancels only a job that exists.  A
\* synchronous cancel has removed the job when it returns; an asynchronous
\* one has only asked for it, and without ABORT_ASYNC the call polls until
\* the job is gone, still holding the job
BlockJobMon(t) ==
    /\ At(t, "BlockJob", "bj_mon")
    /\ UNCHANGED closeCb
    /\ \E r \in MonResults(t) :
         IF r = "fail"
         THEN Return(t, "fail", EndJob(job), Unref(vm))
         ELSE IF Has(t, "BLOCK_JOB_INFO")
         THEN Return(t, "ok", EndJob(job), Unref(vm))
         ELSE IF Has(t, "BLOCK_JOB_PULL")
         THEN /\ vm.blockjob = "none"
              /\ Return(t, "ok", EndJob(job),
                        Unref([vm EXCEPT !.blockjob = "running"]))
         ELSE /\ vm.blockjob # "none"
              /\ IF Has(t, "sync")
                 THEN Return(t, "ok", EndJob(job),
                             Unref([vm EXCEPT !.blockjob = "none"]))
                 ELSE IF Has(t, "abort_async")
                 THEN Return(t, "ok", EndJob(job),
                             Unref([vm EXCEPT !.blockjob = "cancelling"]))
                 ELSE Goto(t, "bj_poll_mon", loc[t], job,
                           [vm EXCEPT !.blockjob = "cancelling"])

\* a polling loop that gives the job up for the time of the sleep
BlockJobPollMonDroppingJob(t) ==
    /\ At(t, "BlockJob", "bj_poll_mon")
    /\ UNCHANGED closeCb
    /\ \E r \in MonResults(t) :
         IF r = "fail"
         THEN Return(t, "fail", EndJob(job), Unref(vm))
         ELSE IF vm.blockjob = "none"
              THEN Return(t, "ok", EndJob(job), Unref(vm))
              ELSE Goto(t, "bj_sleep", loc[t], EndJob(job), vm)

\* the query of the polling loop has returned: `if (ret <= 0) break`, else
\* the locks are released and the thread sleeps for 50 ms
BlockJobPollMon(t) ==
    /\ At(t, "BlockJob", "bj_poll_mon")
    /\ UNCHANGED closeCb
    /\ \E r \in MonResults(t) :
         IF r = "fail"
         THEN Return(t, "fail", EndJob(job), Unref(vm))
         ELSE IF vm.blockjob = "none"
              THEN Return(t, "ok", EndJob(job), Unref(vm))
              ELSE Goto(t, "bj_sleep", loc[t], job, vm)

\* the sleep is over and the locks are taken again: the loop ends if the
\* domain is no longer running, else the next query is sent
BlockJobSleep(t) ==
    /\ At(t, "BlockJob", "bj_sleep")
    /\ UNCHANGED closeCb
    /\ IF ~vm.active
       THEN Return(t, "fail", EndJob(job), Unref(vm))
       ELSE Goto(t, "bj_poll_mon", loc[t], job, vm)

qemuDomainBlockJobImpl(t) ==
    \/ BlockJobStart(t)
    \/ BlockJobAdmit(t)
    \/ BlockJobMon(t)
    \/ BlockJobPollMon(t)
    \/ BlockJobSleep(t)

\* QEMU: a block job of the running process completes, or its cancellation
\* takes effect
BlockJobGone ==
    /\ vm.alive
    /\ vm.blockjob # "none"
    /\ vm' = [vm EXCEPT !.blockjob = "none"]
    /\ UNCHANGED <<job, mon, closeCb, img, pc, op, ret, loc, calls>>

\* ------------------------------------------------------------ virSecurityManagerGenLabel

\* the names of the security drivers
SecurityModels == {"selinux", "dac"}

\* the most security labels of a definition before the first call
MaxLabels == 1

\* virDomainDefGenSecurityLabelDef(name): a fresh label of the model, its
\* type still VIR_DOMAIN_SECLABEL_DEFAULT
virDomainDefGenSecurityLabelDef(name) ==
    [model |-> name, type |-> "DEFAULT", norelabel |-> FALSE, implicit |-> FALSE]

\* virDomainDefGetSecurityLabelDef(vm, name): the index of the first label
\* of the model, 0 for NULL
virDomainDefGetSecurityLabelDef(labels, name) ==
    IF \E i \in 1..Len(labels) : labels[i].model = name
    THEN CHOOSE i \in 1..Len(labels) :
           /\ labels[i].model = name
           /\ \A k \in 1..(i - 1) : labels[k].model # name
    ELSE 0

\* the stacks of security managers a driver can run with: one manager, or
\* two of different models; each with its defaultConfined and
\* requireConfined settings and with what its domainGenSecurityLabel does
\* ("absent": the driver has none)
SecurityManager ==
    [name : SecurityModels, defaultConfined : BOOLEAN,
     requireConfined : BOOLEAN, gen : {"ok", "fail", "absent"}]

SecurityStacks ==
    {<<m>> : m \in SecurityManager}
      \cup {<<m, n>> : m \in {x \in SecurityManager : x.name = "selinux"},
                       n \in {x \in SecurityManager : x.name = "dac"}}

\* the first loop: every label that names a model needs a manager of it
AllModelsManaged(mgrs, labels) ==
    \A i \in 1..Len(labels) :
      labels[i].model = "" \/ \E j \in 1..Len(mgrs) : mgrs[j].name = labels[i].model

\* type DEFAULT becomes DYNAMIC under a manager that confines by default,
\* else NONE with norelabel
ResolveDefault(l, m) ==
    IF l.type # "DEFAULT" THEN l
    ELSE IF m.defaultConfined
         THEN [l EXCEPT !.type = "DYNAMIC"]
         ELSE [l EXCEPT !.type = "NONE", !.norelabel = TRUE]

\* what is done to vm->seclabels when domainGenSecurityLabel fails:
\* VIR_DELETE_ELEMENT(vm->seclabels, vm->nseclabels - 1, vm->nseclabels)
DeleteAfterGenFailure(labels) ==
    SubSeq(labels, 1, Len(labels) - 1)

\* the second loop from manager i on, on the labels of the definition; oom
\* names the allocation that fails in this call, if any.  The result is the
\* return value and the labels the definition is left with
RECURSIVE GenLabelFrom(_, _, _, _)
GenLabelFrom(mgrs, i, labels, oom) ==
    IF i > Len(mgrs) THEN [rc |-> 0, labels |-> labels]
    ELSE
      LET m == mgrs[i]
          at == virDomainDefGetSecurityLabelDef(labels, m.name)
          generated == at = 0
      IN IF generated /\ oom = "label"
         THEN [rc |-> -1, labels |-> labels]
         ELSE
           LET l0 == IF generated
                     THEN [virDomainDefGenSecurityLabelDef(m.name) EXCEPT !.implicit = TRUE]
                     ELSE labels[at]
               l1 == ResolveDefault(l0, m)
               labs == IF generated THEN labels ELSE [labels EXCEPT ![at] = l1]
           IN IF l1.type = "NONE" /\ m.requireConfined
              THEN [rc |-> -1, labels |-> labs]
              ELSE IF l1.type = "NONE" /\ Len(labels) > 0 /\ generated
              THEN GenLabelFrom(mgrs, i + 1, labs, oom)
              ELSE IF m.gen = "absent"
              THEN GenLabelFrom(mgrs, i + 1, labs, oom)
              ELSE IF generated /\ oom = "append"
              THEN [rc |-> -1, labels |-> labs]
              ELSE LET appended == IF generated THEN Append(labs, l1) ELSE labs
                   IN IF m.gen = "fail"
                      THEN [rc |-> -1,
                            labels |-> DeleteAfterGenFailure(appended)]
                      ELSE GenLabelFrom(mgrs, i + 1, appended, oom)

\* virSecurityManagerGenLabel(mgr, vm) on the labels of the definition
GenLabel(mgrs, labels, oom) ==
    IF ~AllModelsManaged(mgrs, labels)
    THEN [rc |-> -1, labels |-> labels]
    ELSE GenLabelFrom(mgrs, 1, labels, oom)

\* a call of virSecurityManagerGenLabel by thread t, under the lock of its
\* caller
virSecurityManagerGenLabel(t) ==
    /\ Start(t, "GenLabel")
    /\ \E mgrs \in SecurityStacks, oom \in {"none", "label", "append"} :
         LET r == GenLabel(mgrs, vm.seclabels, oom) IN
           /\ vm' = [vm EXCEPT !.seclabels = r.labels]
           /\ ret' = [ret EXCEPT ![t] = IF r.rc < 0 THEN "fail" ELSE "ok"]
    /\ UNCHANGED <<job, mon, closeCb, img, pc, loc>>

\* ------------------------------------------------------------ close-callback registry

\* the cleanup functions a registry entry can name
Callbacks == {"qemuMigrationCleanup", "qemuProcessAutoDestroy"}

\* no entry for the domain
NoCallback == [conn |-> 0, cb |-> "none"]

\* an entry that replaces whatever is registered
qemuDriverCloseCallbackSetOverwriting(e, c, fn) ==
    [rc |-> 0, entry |-> [conn |-> c, cb |-> fn]]

\* qemuDriverCloseCallbackSet(vm, conn, cb) on the domain's entry e: one
\* callback per domain; an entry of another connection is an error
qemuDriverCloseCallbackSet(e, c, fn) ==
    IF e.conn # 0 /\ e.conn # c
    THEN [rc |-> -1, entry |-> e]
    ELSE [rc |-> 0, entry |-> [conn |-> c, cb |-> fn]]

\* an unset that removes whatever is registered
qemuDriverCloseCallbackUnsetAny(e, fn) ==
    NoCallback

\* qemuDriverCloseCallbackUnset(vm, cb) on the domain's entry e: the entry
\* is removed only if it names cb
qemuDriverCloseCallbackUnset(e, fn) ==
    IF e.cb = fn THEN NoCallback ELSE e

\* a call of qemuDriverCloseCallbackSet(vm, c, fn) by thread t
RegistrySet(t, c, fn) ==
    /\ Start(t, "Set")
    /\ LET s == qemuDriverCloseCallbackSet(closeCb, c, fn) IN
         /\ closeCb' = s.entry
         /\ ret' = [ret EXCEPT ![t] = IF s.rc < 0 THEN "fail" ELSE "ok"]
    /\ loc' = [loc EXCEPT ![t] = With(NoLoc, fn)]
    /\ UNCHANGED <<vm, job, mon, img, pc>>

\* a call of qemuDriverCloseCallbackUnset(vm, fn) by thread t
RegistryUnset(t, fn) ==
    /\ Start(t, "Unset")
    /\ closeCb' = qemuDriverCloseCallbackUnset(closeCb, fn)
    /\ ret' = [ret EXCEPT ![t] = "ok"]
    /\ loc' = [loc EXCEPT ![t] = With(NoLoc, fn)]
    /\ UNCHANGED <<vm, job, mon, img, pc>>

\* ------------------------------------------------------------ qemuDomainMigrateBegin3

\* qemuMigrationJobStart: the async job of an outgoing migration and its mask
qemuMigrationJobStart(j, t) ==
    [SetAsyncJobMask(BeginAsyncJob(j, t, QEMU_ASYNC_JOB_MIGRATION_OUT), WIDE_JOB_MASK)
       EXCEPT !.info = "UNBOUNDED"]

\* qemuMigrationJobSetPhase
qemuMigrationJobSetPhase(j, ph) == [j EXCEPT !.phase = ph]

\* qemuMigrationJobContinue: the thread gives the job up, the job stays
qemuMigrationJobContinue(j) == [j EXCEPT !.asyncOwner = NoThread]

\* label endjob: qemuMigrationJobFinish under change protection, else EndJob
MigrateBeginEndjob(t, l, j, v) ==
    IF "protected" \in l.f
    THEN Return(t, "fail", EndAsyncJob(j), Unref(v))
    ELSE Return(t, "fail", EndJob(j), Unref(v))

\* the body, once the job is held: qemuDomainCheckEjectableMedia asks the
\* monitor
MigrateBeginBody(t, l, j, v) ==
    IF ~v.active
    THEN MigrateBeginEndjob(t, l, j, v)
    ELSE IF "protected" \in l.f
         THEN IF EnterMonitorAsync(j, v, t, QEMU_ASYNC_JOB_MIGRATION_OUT) = "enter"
              THEN Goto(t, "begin_mon", l, BeginJob(j, t, QEMU_JOB_ASYNC_NESTED), v)
              ELSE MigrateBeginEndjob(t, l, j, v)
         ELSE Goto(t, "begin_mon", l, j, v)

\* flags: VIR_MIGRATE_CHANGE_PROTECTION or not
MigrateBeginStart(t) ==
    /\ Start(t, "MigrateBegin3")
    /\ UNCHANGED closeCb
    /\ IF ~vm.inStore
       THEN Return(t, "fail", job, vm)
       ELSE \E protected \in BOOLEAN :
              IF protected
              THEN IF CanBeginAsyncJob(job)
                   THEN MigrateBeginBody(t, With(NoLoc, "protected"),
                                         qemuMigrationJobStart(job, t), Ref(vm))
                   ELSE Goto(t, "wait", With(NoLoc, "protected"), job, Ref(vm))
              ELSE IF CanBeginJob(job, QEMU_JOB_MODIFY)
                   THEN MigrateBeginBody(t, NoLoc, BeginJob(job, t, QEMU_JOB_MODIFY), Ref(vm))
                   ELSE Goto(t, "wait", NoLoc, job, Ref(vm))

MigrateBeginAdmit(t) ==
    /\ At(t, "MigrateBegin3", "wait")
    /\ UNCHANGED closeCb
    /\ IF Has(t, "protected")
       THEN /\ CanBeginAsyncJob(job)
            /\ MigrateBeginBody(t, loc[t], qemuMigrationJobStart(job, t), vm)
       ELSE /\ CanBeginJob(job, QEMU_JOB_MODIFY)
            /\ MigrateBeginBody(t, loc[t], BeginJob(job, t, QEMU_JOB_MODIFY), vm)

\* qemuMigrationJobStart or BeginJob gives up: `goto cleanup`
MigrateBeginTimeout(t) ==
    /\ At(t, "MigrateBegin3", "wait")
    /\ UNCHANGED closeCb
    /\ IF Has(t, "protected")
       THEN ~CanBeginAsyncJob(job)
       ELSE ~CanBeginJob(job, QEMU_JOB_MODIFY)
    /\ Return(t, "fail", job, Unref(vm))

\* the media check ends; qemuMigrationBegin records the phase of a migration
\* job and formats the XML; under change protection the close callback is
\* set and the job is kept for the calls to come
MigrateBeginMon(t) ==
    /\ At(t, "MigrateBegin3", "begin_mon")
    /\ \E r \in MonResults(t), xml \in BOOLEAN, set \in BOOLEAN :
         LET j1 == ExitMonitor(job)
             j2 == IF j1.asyncJob = QEMU_ASYNC_JOB_MIGRATION_OUT
                   THEN qemuMigrationJobSetPhase(j1, "BEGIN3") ELSE j1
         IN IF r = "fail"
            THEN /\ MigrateBeginEndjob(t, loc[t], j1, vm)
                 /\ UNCHANGED closeCb
            ELSE IF ~xml \/ (Has(t, "protected") /\ ~set)
                 THEN /\ MigrateBeginEndjob(t, loc[t], j2, vm)
                      /\ UNCHANGED closeCb
                 ELSE IF Has(t, "protected")
                      THEN \E c \in Conns :
                             LET s == qemuDriverCloseCallbackSet(closeCb, c, "qemuMigrationCleanup")
                             IN /\ closeCb' = s.entry
                                /\ IF s.rc < 0
                                   THEN MigrateBeginEndjob(t, loc[t], j2, vm)
                                   ELSE Return(t, IF Unref(vm).refs = 0 THEN "fail" ELSE "ok",
                                               qemuMigrationJobContinue(j2), Unref(vm))
                      ELSE /\ Return(t, "ok", EndJob(j2), Unref(vm))
                           /\ UNCHANGED closeCb

qemuDomainMigrateBegin3(t) ==
    \/ MigrateBeginStart(t) \/ MigrateBeginAdmit(t) \/ MigrateBeginTimeout(t)
    \/ MigrateBeginMon(t)

\* ------------------------------------------------------------ qemuDomainMigrateConfirm3

\* qemuMigrationJobStartPhase: the calling thread takes the job over
qemuMigrationJobStartPhase(j, t, ph) ==
    [qemuMigrationJobSetPhase(j, ph) EXCEPT !.asyncOwner = t]

\* from qemuMigrationJobFinish to the return
MigrateConfirmFinish(t, rv, j, v) ==
    \E undefine \in BOOLEAN :
      IF Unref(v).refs > 0 /\ ~v.active /\ (~v.persistent \/ undefine)
      THEN Return(t, rv, EndAsyncJob(j), qemuDomainRemoveInactive(Unref(v)))
      ELSE Return(t, rv, EndAsyncJob(j), Unref(v))

\* a confirm that does not ask whether a migration job is active
MigrateConfirmStartUnchecked(t) ==
    /\ Start(t, "MigrateConfirm3")
    /\ IF ~vm.inStore
       THEN /\ Return(t, "fail", job, vm)
            /\ UNCHANGED closeCb
       ELSE /\ closeCb' = qemuDriverCloseCallbackUnset(closeCb, "qemuMigrationCleanup")
            /\ \E cancelled \in BOOLEAN, cookie \in BOOLEAN :
                 LET ph == IF cancelled THEN "CONFIRM3_CANCELLED" ELSE "CONFIRM3"
                     j1 == qemuMigrationJobStartPhase(job, t, ph)
                 IN IF ~cookie
                    THEN MigrateConfirmFinish(t, "fail", j1, Ref(vm))
                    ELSE IF ~cancelled
                         THEN MigrateConfirmFinish(t, "ok", j1, qemuProcessStop(Ref(vm)))
                         ELSE EnterAsync(t, QEMU_ASYNC_JOB_MIGRATION_OUT,
                                         "confirm_enter", "confirm_mon", NoLoc, j1, Ref(vm))

\* the phase is recorded, the close callback unset; qemuMigrationConfirm
\* stops the domain that migrated, or resumes the one whose migration was
\* cancelled
MigrateConfirmStart(t) ==
    /\ Start(t, "MigrateConfirm3")
    /\ IF ~vm.inStore \/ job.asyncJob # QEMU_ASYNC_JOB_MIGRATION_OUT
       THEN /\ Return(t, "fail", job, vm)
            /\ UNCHANGED closeCb
       ELSE /\ closeCb' = qemuDriverCloseCallbackUnset(closeCb, "qemuMigrationCleanup")
            /\ \E cancelled \in BOOLEAN, cookie \in BOOLEAN :
                 LET ph == IF cancelled THEN "CONFIRM3_CANCELLED" ELSE "CONFIRM3"
                     j1 == qemuMigrationJobStartPhase(job, t, ph)
                 IN IF ~cookie
                    THEN MigrateConfirmFinish(t, "fail", j1, Ref(vm))
                    ELSE IF ~cancelled
                         THEN MigrateConfirmFinish(t, "ok", j1, qemuProcessStop(Ref(vm)))
                         ELSE EnterAsync(t, QEMU_ASYNC_JOB_MIGRATION_OUT,
                                         "confirm_enter", "confirm_mon", NoLoc, j1, Ref(vm))

MigrateConfirmEnter(t) ==
    /\ At(t, "MigrateConfirm3", "confirm_enter")
    /\ UNCHANGED closeCb
    /\ IF EnterMonitorAsync(job, vm, t, QEMU_ASYNC_JOB_MIGRATION_OUT) = "enter"
       THEN Goto(t, "confirm_mon", loc[t], BeginJob(job, t, QEMU_JOB_ASYNC_NESTED), vm)
       ELSE MigrateConfirmFinish(t, "fail", job, vm)

MigrateConfirmMon(t) ==
    /\ At(t, "MigrateConfirm3", "confirm_mon")
    /\ UNCHANGED closeCb
    /\ \E r \in MonResults(t) :
         MigrateConfirmFinish(t, r, ExitMonitor(job),
                              IF r = "ok" THEN SetState(vm, "running") ELSE vm)

qemuDomainMigrateConfirm3(t) ==
    MigrateConfirmStart(t) \/ MigrateConfirmEnter(t) \/ MigrateConfirmMon(t)

\* ------------------------------------------------------------ async job primitives

\* a caller of the job layer asks for the job of an outgoing migration with
\* initial phase BEGIN3: BeginAsyncJob admits it or fails with JOB_BUSY; the
\* state of the domain is not looked at
AsyncJobBegin(t) ==
    /\ Start(t, "BeginAsyncJob")
    /\ UNCHANGED closeCb
    /\ IF CanBeginAsyncJob(job)
       THEN Return(t, "ok", qemuMigrationJobSetPhase(qemuMigrationJobStart(job, t), "BEGIN3"),
                   Ref(vm))
       ELSE Return(t, "fail", job, vm)

\* AdvanceAsyncPhase(PERFORM3): valid only while the migration job is active
AsyncJobAdvance(t) ==
    /\ Start(t, "AdvanceAsyncPhase")
    /\ UNCHANGED closeCb
    /\ IF job.asyncJob = QEMU_ASYNC_JOB_MIGRATION_OUT
       THEN Return(t, "ok", qemuMigrationJobSetPhase(job, "PERFORM3"), vm)
       ELSE Return(t, "fail", job, vm)

\* the owner of the migration job calls EndAsyncJob
AsyncJobEnd(t) ==
    /\ Start(t, "EndAsyncJob")
    /\ UNCHANGED closeCb
    /\ job.asyncJob = QEMU_ASYNC_JOB_MIGRATION_OUT
    /\ job.asyncOwner = t
    /\ Return(t, "ok", EndAsyncJob(job), Unref(vm))

\* ------------------------------------------------------------ admission failure

\* the synchronous job kind each operation asks for
JobOf(o) ==
    CASE o = "Suspend" -> QEMU_JOB_SUSPEND
      [] o = "AbortJob" -> QEMU_JOB_ABORT
      [] o = "Destroy" -> QEMU_JOB_DESTROY
      [] o = "MigrateSetMaxDowntime" -> QEMU_JOB_MIGRATION_OP
      [] OTHER -> QEMU_JOB_MODIFY

SyncOps ==
    {"Suspend", "AbortJob", "Destroy", "Create", "ModifyDevice", "BlockCommit",
     "SetBlockIoTune", "OpenGraphics", "MigrateSetMaxDowntime", "AgentCommand",
     "PMWakeup", "BlockJob"}
AsyncOps == {"CoreDump", "Snapshot"}

\* a BeginJob whose wait has no limit
BeginJobWaitingForever(t) ==
    /\ pc[t] = "wait"
    /\ op[t] \in SyncOps
    /\ FALSE
    /\ UNCHANGED <<op, calls, closeCb>>
    /\ Return(t, "fail", job, Unref(vm))

\* BeginJob gives up (the wait timed out): `goto cleanup`, the job was never
\* held; only the reference BeginJob took is dropped
BeginJobTimeout(t) ==
    /\ pc[t] = "wait"
    /\ op[t] \in SyncOps
    /\ ~CanBeginJob(job, JobOf(op[t]))
    /\ UNCHANGED <<op, calls, closeCb>>
    /\ Return(t, "fail", job, Unref(vm))

\* BeginAsyncJob gives up: `goto cleanup`
BeginAsyncJobTimeout(t) ==
    /\ pc[t] = "wait"
    /\ op[t] \in AsyncOps
    /\ ~CanBeginAsyncJob(job)
    /\ UNCHANGED <<op, calls, closeCb>>
    /\ Return(t, "fail", job, Unref(vm))

\* ------------------------------------------------------------ qemudClose

\* qemuDomainObjDiscardAsyncJob: the async job is forgotten, and the nested
\* job with it
qemuDomainObjDiscardAsyncJob(j) ==
    EndAsyncJob(IF j.active = QEMU_JOB_ASYNC_NESTED THEN EndJob(j) ELSE j)

\* qemuMigrationCleanup, the callback MigrateBegin3 registers: an outgoing
\* migration that is held open between two calls is cancelled and its job
\* discarded
qemuMigrationCleanup(j) ==
    IF j.asyncJob = QEMU_ASYNC_JOB_MIGRATION_OUT
    THEN qemuDomainObjDiscardAsyncJob(j)
    ELSE j

\* qemuDriverCloseCallbackRunAll for connection c: the callback of the
\* domain registered under c runs under the domain's lock if the store
\* still has the domain
qemuDriverCloseCallbackRunAll(j, v, c) ==
    IF v.inStore THEN qemuMigrationCleanup(j) ELSE j

\* the teardown dropping the entries of the connection without running them
qemudCloseWithoutRunAll(c) ==
    /\ closeCb.conn = c
    /\ closeCb' = NoCallback
    /\ UNCHANGED <<job, vm, mon, img, pc, op, ret, loc, calls>>

\* connection c is torn down: the callbacks registered under it are run
\* and their entries removed
qemudClose(c) ==
    /\ closeCb.conn = c
    /\ job' = qemuDriverCloseCallbackRunAll(job, vm, c)
    /\ closeCb' = NoCallback
    /\ UNCHANGED <<vm, mon, img, pc, op, ret, loc, calls>>

\* ------------------------------------------------------------ qemudStartup

\* qemuProcessReconnectAll on the running domain: the job state read from
\* the status file is discarded
qemuProcessReconnectAll(j) == NoJob

\* a startup that keeps the job state of the status file
qemudStartupKeepingJob(t) ==
    /\ At(t, "Startup", "startup")
    /\ UNCHANGED closeCb
    /\ Return(t, IF job = NoJob THEN "ok" ELSE "recovered", job, vm)

\* qemudStartup from virDomainLoadAllConfigs to qemuDriverUnlock, under the
\* driver lock: the running domains are loaded with their status, reconnected,
\* and only then is the worker pool created and the lock released.  The
\* result records whether a job of the previous session was found
qemudStartup(t) ==
    /\ At(t, "Startup", "startup")
    /\ UNCHANGED closeCb
    /\ Return(t, IF job = NoJob THEN "ok" ELSE "recovered",
              qemuProcessReconnectAll(job), vm)

\* ------------------------------------------------------------ restore and start

\* what the system answers while an image is opened and a domain started.
\* opened: qemuOpenFile succeeds; removed: unlink succeeds; valid: version,
\* XML length and XML of the image are good; same: the image belongs to the
\* domain; started: qemuDomainSaveImageStartVM starts the process and
\* resumes it ("ok"), starts it and fails to resume it ("noresume"), or
\* fails to start it ("fail"); booted: qemuProcessStart of a cold boot works
Answers ==
    [opened : BOOLEAN, removed : BOOLEAN, valid : BOOLEAN, same : BOOLEAN,
     started : {"ok", "noresume", "fail"}, booted : BOOLEAN]

\* a header check that takes an incomplete image for a complete one
qemuDomainSaveImageOpenAnyMagic(i, unlink_corrupt, a) ==
    IF ~i.present \/ ~a.opened
    THEN [rc |-> "error", img |-> i]
    ELSE IF ~i.header
         THEN IF unlink_corrupt /\ a.removed
              THEN [rc |-> "unlinked", img |-> [i EXCEPT !.present = FALSE]]
              ELSE [rc |-> "error", img |-> i]
         ELSE IF i.magic \notin {QEMUD_SAVE_MAGIC, QEMUD_SAVE_PARTIAL} \/ ~a.valid
              THEN [rc |-> "error", img |-> i]
              ELSE [rc |-> "fd", img |-> i]

\* qemuDomainSaveImageOpen: the file is opened and its header checked.
\* rc: "fd" (the open file), "error" (-1), "unlinked" (-3: a corrupt image
\* was removed at the caller's wish)
qemuDomainSaveImageOpen(i, unlink_corrupt, a) ==
    IF ~i.present \/ ~a.opened
    THEN [rc |-> "error", img |-> i]
    ELSE IF ~i.header
         THEN IF unlink_corrupt /\ a.removed
              THEN [rc |-> "unlinked", img |-> [i EXCEPT !.present = FALSE]]
              ELSE [rc |-> "error", img |-> i]
         ELSE IF i.magic # QEMUD_SAVE_MAGIC
              THEN IF i.magic = QEMUD_SAVE_PARTIAL /\ unlink_corrupt /\ a.removed
                   THEN [rc |-> "unlinked", img |-> [i EXCEPT !.present = FALSE]]
                   ELSE [rc |-> "error", img |-> i]
              ELSE IF ~a.valid
                   THEN [rc |-> "error", img |-> i]
                   ELSE [rc |-> "fd", img |-> i]

\* qemuDomainSaveImageStartVM: the process is started from the image,
\* paused, and resumed if the image was taken from a running domain
qemuDomainSaveImageStartVM(v, i, start_paused, a) ==
    IF a.started = "fail"
    THEN [ret |-> -1, vm |-> v, img |-> i]
    ELSE LET i1 == [i EXCEPT !.restored = TRUE] IN
         IF i.was_running /\ ~start_paused
         THEN IF a.started = "noresume"
              THEN [ret |-> -1, vm |-> qemuProcessStart(v, "paused"), img |-> i1]
              ELSE [ret |-> 0, vm |-> qemuProcessStart(v, "running"), img |-> i1]
         ELSE [ret |-> 0, vm |-> qemuProcessStart(v, "paused"), img |-> i1]

\* qemuDomainObjRestore: 0 restored, 1 an incomplete image was removed,
\* -1 failure
qemuDomainObjRestore(v, i, start_paused, a) ==
    LET r == qemuDomainSaveImageOpen(i, TRUE, a) IN
    IF r.rc = "unlinked" THEN [ret |-> 1, vm |-> v, img |-> r.img]
    ELSE IF r.rc = "error" \/ ~a.same THEN [ret |-> -1, vm |-> v, img |-> r.img]
    ELSE qemuDomainSaveImageStartVM(v, r.img, start_paused, a)

\* qemuDomainObjStart: a managed save image is restored and removed; with
\* force_boot, or when the image was incomplete and removed, the domain is
\* booted
qemuDomainObjStart(v, i, force_boot, start_paused, a) ==
    LET boot(v1, i1) ==
            IF a.booted
            THEN [ret |-> 0, img |-> i1,
                  vm |-> qemuProcessStart(v1, IF start_paused THEN "paused" ELSE "running")]
            ELSE [ret |-> -1, vm |-> v1, img |-> i1]
        r == qemuDomainObjRestore(v, i, start_paused, a)
    IN IF ~i.present THEN boot(v, i)
       ELSE IF force_boot
            THEN IF a.removed
                 THEN boot(v, [i EXCEPT !.present = FALSE])
                 ELSE [ret |-> -1, vm |-> v, img |-> i]
            ELSE IF r.ret = 0
                 THEN IF a.removed
                      THEN [ret |-> 0, vm |-> [r.vm EXCEPT !.hasManagedSave = FALSE],
                            img |-> [r.img EXCEPT !.present = FALSE]]
                      ELSE r
                 ELSE IF r.ret > 0 THEN boot(r.vm, r.img) ELSE r

\* an operation on the image returns rv; it took the MODIFY job and gave
\* it back
ImageReturn(t, rv, v, i) ==
    /\ ret' = [ret EXCEPT ![t] = rv]
    /\ vm' = v
    /\ img' = i
    /\ UNCHANGED <<job, mon, closeCb, pc, loc>>

\* qemuDomainRestoreFlags: an explicit restore from the image
qemuDomainRestoreFlags(t) ==
    /\ Start(t, "Restore")
    /\ \E a \in Answers :
         LET r == qemuDomainSaveImageOpen(img, FALSE, a)
             v1 == virDomainAssignDef(vm)
             s == qemuDomainSaveImageStartVM(v1, r.img, FALSE, a)
         IN IF r.rc # "fd" \/ (vm.inStore /\ vm.active)
            THEN ImageReturn(t, "fail", vm, r.img)
            ELSE IF ~CanBeginJob(job, QEMU_JOB_MODIFY)
                 THEN ImageReturn(t, "fail", v1, r.img)
                 ELSE IF s.ret < 0 /\ ~s.vm.persistent
                      THEN ImageReturn(t, "fail", qemuDomainRemoveInactive(s.vm), s.img)
                      ELSE ImageReturn(t, IF s.ret < 0 THEN "fail" ELSE "ok", s.vm, s.img)

\* qemuDomainStartWithFlags: the start of a defined domain
qemuDomainStartWithFlags(t) ==
    /\ Start(t, "Start")
    /\ \E a \in Answers, force_boot \in BOOLEAN, start_paused \in BOOLEAN :
         LET s == qemuDomainObjStart(vm, img, force_boot, start_paused, a)
         IN IF ~vm.inStore \/ ~CanBeginJob(job, QEMU_JOB_MODIFY) \/ vm.active
            THEN ImageReturn(t, "fail", vm, img)
            ELSE ImageReturn(t, IF s.ret < 0 THEN "fail" ELSE "ok", s.vm, s.img)

\* ------------------------------------------------------------ qemuDomainSaveMemory

\* a file that was just created or truncated
EmptyImage ==
    [present |-> TRUE, header |-> FALSE, magic |-> "",
     was_running |-> FALSE, restored |-> FALSE]

\* the file after a header with magic m was written at its start
WithHeader(i, m, w) ==
    [i EXCEPT !.header = TRUE, !.magic = m, !.was_running = w]

\* thread t goes on to place p of qemuDomainSaveMemory, the file being i
SaveMemoryStep(t, p, l, rv, i) ==
    /\ pc' = [pc EXCEPT ![t] = p]
    /\ loc' = [loc EXCEPT ![t] = l]
    /\ ret' = [ret EXCEPT ![t] = rv]
    /\ img' = i
    /\ UNCHANGED <<vm, job, mon, closeCb>>

\* label cleanup with ret != 0 and needUnlink: unlink(path), which can fail
SaveMemoryCleanup(t, i) ==
    \E removed \in BOOLEAN :
      SaveMemoryStep(t, "idle", NoLoc, "fail",
                     IF removed THEN [i EXCEPT !.present = FALSE] ELSE i)

\* from the start to virFileWrapperFdNew: the header is prepared with the
\* partial magic; qemuOpenFile creates the file or truncates a regular
\* file, while a block device keeps what it holds
SaveMemoryOpen(t) ==
    /\ Start(t, "SaveMemory")
    /\ \E prepared \in BOOLEAN, opened \in BOOLEAN, regular \in BOOLEAN,
          wrapper \in BOOLEAN, was_running \in BOOLEAN :
         LET i1 == IF img.present /\ ~regular THEN img ELSE EmptyImage
             l == IF was_running THEN With(NoLoc, "was_running") ELSE NoLoc
         IN IF ~prepared \/ ~opened
            THEN SaveMemoryStep(t, "idle", NoLoc, "fail", img)
            ELSE IF ~wrapper
                 THEN SaveMemoryCleanup(t, i1)
                 ELSE SaveMemoryStep(t, "sm_header", l, "none", i1)

\* qemuDomainSaveHeader writing the complete magic at once
SaveMemoryHeaderComplete(t) ==
    /\ At(t, "SaveMemory", "sm_header")
    /\ SaveMemoryStep(t, "sm_migrate", loc[t], "none",
                      IF img.present
                      THEN WithHeader(img, QEMUD_SAVE_MAGIC, Has(t, "was_running"))
                      ELSE img)

\* qemuDomainSaveHeader: the header, then the XML; a write that fails can
\* have written nothing, a part of the magic, or the magic.  Then the
\* migration to the file starts
SaveMemoryHeader(t) ==
    /\ At(t, "SaveMemory", "sm_header")
    /\ \E w \in {"nothing", "part", "header", "all"} :
         LET i1 == IF ~img.present \/ w = "nothing" THEN img
                   ELSE IF w = "part"
                        THEN (IF img.header THEN [img EXCEPT !.magic = "other"] ELSE img)
                        ELSE WithHeader(img, QEMUD_SAVE_PARTIAL, Has(t, "was_running"))
         IN IF w = "all"
            THEN SaveMemoryStep(t, "sm_migrate", loc[t], "none", i1)
            ELSE SaveMemoryCleanup(t, i1)

\* qemuMigrationToFile ends; the file is closed and opened again
SaveMemoryMigrate(t) ==
    /\ At(t, "SaveMemory", "sm_migrate")
    /\ \E r \in {"ok", "fail"}, closed \in BOOLEAN, reopened \in BOOLEAN :
         IF r = "fail" \/ ~closed \/ ~reopened \/ ~img.present
         THEN SaveMemoryCleanup(t, img)
         ELSE SaveMemoryStep(t, "sm_touch", With(loc[t], "migrated"), "none", img)

\* `Touch up file header to mark image complete`, and the last close
SaveMemoryTouch(t) ==
    /\ At(t, "SaveMemory", "sm_touch")
    /\ \E w \in {"nothing", "part", "all"}, closed \in BOOLEAN :
         LET i1 == IF ~img.present \/ w = "nothing" THEN img
                   ELSE IF w = "part" THEN [img EXCEPT !.magic = "other"]
                        ELSE WithHeader(img, QEMUD_SAVE_MAGIC, Has(t, "was_running"))
         IN IF w = "all" /\ closed
            THEN SaveMemoryStep(t, "idle", NoLoc, "ok", i1)
            ELSE SaveMemoryCleanup(t, i1)

qemuDomainSaveMemory(t) ==
    \/ SaveMemoryOpen(t) \/ SaveMemoryHeader(t)
    \/ SaveMemoryMigrate(t) \/ SaveMemoryTouch(t)

\* ------------------------------------------------------------ environment

\* the QEMU process exits on its own
ProcessExit ==
    /\ vm.active /\ vm.alive
    /\ vm' = qemuProcessKill(vm)
    /\ UNCHANGED <<job, mon, closeCb, img, pc, op, ret, loc, calls>>

\* qemuProcessHandleMonitorEOF: the dedicated handler shuts the domain off
\* and drops a transient domain from the store
MonitorEOF ==
    /\ vm.active /\ ~vm.alive /\ ~vm.beingDestroyed
    /\ vm' = IF vm.persistent
             THEN qemuProcessStop(vm)
             ELSE qemuDomainRemoveInactive(qemuProcessStop(vm))
    /\ UNCHANGED <<job, mon, closeCb, img, pc, op, ret, loc, calls>>

\* ------------------------------------------------------------ places

\* the places inside a call of qemuDomainObjEnterMonitorAsync
EnterPcs ==
    {"cd_dump_enter", "cd_start_enter",
     "save_stop_enter", "save_mig_enter", "save_start_enter",
     "sn_stop_enter", "sn_mem_enter", "sn_disk_enter", "sn_start_enter",
     "wd_start_enter", "confirm_enter"}

\* thread t is between a BeginJob of its own that succeeded and its EndJob
InSyncJob(t) ==
    \/ pc[t] \in {"suspend_mon", "abort_mon", "md_mon", "commit_mon", "iotune_mon",
                  "og_mon", "downtime_mon", "cmd_agent", "wakeup_mon",
                  "bj_mon", "bj_poll_mon", "bj_sleep"}
    \/ pc[t] = "begin_mon" /\ ~Has(t, "protected")

\* thread t runs the body of an operation that called BeginAsyncJob
InAsyncJob(t) ==
    \/ op[t] \in {"CoreDump", "Save", "ManagedSave", "Snapshot", "Watchdog"}
         /\ pc[t] \notin {"idle", "wait"}
    \/ pc[t] = "begin_mon" /\ Has(t, "protected")

\* thread t is inside the monitor under the nested job of its async job
InNestedJob(t) ==
    /\ InMonitor(t)
    /\ ~InSyncJob(t)
    /\ pc[t] # "cd_reset_mon"

HoldsJob(t) == job.active # QEMU_JOB_NONE /\ job.owner = t
HoldsAsyncJob(t) == job.asyncJob # QEMU_ASYNC_JOB_NONE /\ job.asyncOwner = t

\* ------------------------------------------------------------ claims

\* C1: an operation that began an async job and returned failure has called
\* EndAsyncJob: no thread that returned failure is still recorded as the
\* owner of an async job
C1_AsyncJobEndedOnFailure ==
    \A t \in Threads :
      (pc[t] = "idle" /\ ret[t] = "fail") => ~HoldsAsyncJob(t)

\* C2: an operation admitted by BeginJob has called EndJob when it returns:
\* no thread that is outside every operation is still recorded as the owner
\* of the synchronous job
C2_JobEndedOnReturn ==
    \A t \in Threads : pc[t] = "idle" => ~HoldsJob(t)

\* C3: when BeginJob / BeginAsyncJob fails, the operation returns failure and
\* the step changes nothing but the caller's reference: not the job state,
\* not the domain, not the monitor, not the close callback
C3_BeginFailureChangesNothing ==
    [][\A t \in Threads :
         (/\ pc[t] = "wait"
          /\ pc'[t] # "wait"
          /\ ~(job'.owner = t /\ job.owner # t)
          /\ ~(job'.asyncOwner = t /\ job.asyncOwner # t))
         => /\ pc'[t] = "idle"
            /\ ret'[t] = "fail"
            /\ job' = job
            /\ [vm' EXCEPT !.refs = 0] = [vm EXCEPT !.refs = 0]
            /\ mon' = mon
            /\ closeCb' = closeCb]_vars

\* C4: at most one thread holds the synchronous job at a time: no two
\* threads are between a BeginJob that admitted them and their EndJob, and
\* the thread that is there is the recorded owner of the job
C4_OneJobHolder ==
    /\ \A t1, t2 \in Threads : (InSyncJob(t1) /\ InSyncJob(t2)) => t1 = t2
    /\ \A t \in Threads : InSyncJob(t) => HoldsJob(t)

\* a thread holds the synchronous job while another one waits in BeginJob
C4_Witness ==
    \E t1, t2 \in Threads :
      /\ InSyncJob(t1) /\ HoldsJob(t1)
      /\ pc[t2] = "wait" /\ op[t2] \in SyncOps

\* C5: two async jobs never execute concurrently on the domain
C5_OneAsyncJob ==
    \A t1, t2 \in Threads :
      (InAsyncJob(t1) /\ InAsyncJob(t2)) => t1 = t2

\* C6: while an async job is active, a step that admits a thread to a
\* synchronous job admits a kind that the mask of the async job allows
C6_MaskedAdmission ==
    [][\A t \in Threads :
         (/\ vm.inStore
          /\ job.asyncJob # QEMU_ASYNC_JOB_NONE
          /\ ~HoldsJob(t)
          /\ job'.owner = t
          /\ job'.active \notin {QEMU_JOB_NONE, QEMU_JOB_ASYNC_NESTED})
         => job'.active \in job.mask]_vars

\* a thread waits in BeginJob for a kind the mask of the running async job
\* does not allow, with no synchronous job in its way
C6_Witness ==
    \E t \in Threads :
      /\ pc[t] = "wait" /\ op[t] \in SyncOps
      /\ job.asyncJob # QEMU_ASYNC_JOB_NONE
      /\ job.active = QEMU_JOB_NONE
      /\ JobOf(op[t]) \notin job.mask

\* C7: whenever a monitor or agent command is in flight, activeJob is not NONE
C7_CommandUnderJob ==
    (\E t \in Threads : mon[t] # "none") => job.active # QEMU_JOB_NONE

\* C8: a thread that has reached EnterMonitor (is inside the call, or inside
\* the monitor) holds a job of its own
C8_EnterMonitorAfterBegin ==
    \A t \in Threads :
      (pc[t] \in EnterPcs \/ InMonitor(t)) => (HoldsJob(t) \/ HoldsAsyncJob(t))

\* C9: at most one thread at a time is inside the monitor
C9_OneThreadInMonitor ==
    \A t1, t2 \in Threads :
      (InMonitor(t1) /\ InMonitor(t2)) => t1 = t2

\* C10: a thread enters the monitor or the agent only with the domain in the
\* store and active at that moment
C10_ActiveWhenEntering ==
    [][\A t \in Threads :
         (mon[t] = "none" /\ mon'[t] # "none") => (vm'.inStore /\ vm'.active)]_vars

\* C11: a thread that leaves the monitor of a domain that is no longer
\* active goes to its cleanup and returns: it does not update the live
\* definition, does not change the run state, and does not go on to a CPU
\* resume or another monitor command
C11_CleanupWhenInactive ==
    [][\A t \in Threads :
         (InMonitor(t) /\ pc'[t] # pc[t] /\ ~vm.active)
         => /\ pc'[t] = "idle"
            /\ vm'.blkdeviotune = vm.blkdeviotune
            /\ vm'.state = vm.state]_vars

\* C12: the step in which a thread's End*Job drops the last reference on
\* the domain object (the call returns 0) leaves the object alone: nothing
\* the code does after End*Job writes to it or takes it out of the store
C12_NoUseAfterZero ==
    [][\A t \in Threads :
         (/\ pc[t] # "idle" /\ pc'[t] = "idle"
          /\ vm.refs = 1 /\ vm'.refs = 0)
         => /\ vm'.hasManagedSave = vm.hasManagedSave
            /\ vm'.inStore = vm.inStore]_vars

\* C13: a save that owns the SAVE job and finds the domain shut off by the
\* EOF handler when it leaves the monitor reports failure, and its return
\* ends the async job once: the job is clear and one reference is dropped
C13_SaveFailsOnEOF ==
    [][\A t \in Threads :
         (/\ op[t] \in SaveOps /\ pc[t] \in MonPcs \cup EnterPcs
          /\ HoldsAsyncJob(t) /\ job.asyncJob = QEMU_ASYNC_JOB_SAVE
          /\ ~vm.active
          /\ pc'[t] # pc[t])
         => /\ pc'[t] = "idle" /\ ret'[t] = "fail"
            /\ job'.asyncJob = QEMU_ASYNC_JOB_NONE
            /\ vm'.refs = Unref(vm).refs
            /\ vm'.inStore = vm.inStore]_vars

\* C14: the teardown of the connection a close callback is registered
\* under runs the cleanup in one step under the domain's lock: the step
\* clears the async job of the outgoing migration and removes the registry
\* entry, so the cleanup cannot run a second time
C14_CloseCallbackRunsOnce ==
    [][\A c \in Conns :
         (/\ closeCb.conn = c /\ vm.inStore
          /\ pc' = pc /\ calls' = calls
          /\ <<job, closeCb>>' # <<job, closeCb>>)
         => /\ closeCb' = NoCallback
            /\ job'.asyncJob # QEMU_ASYNC_JOB_MIGRATION_OUT
            /\ (job.asyncJob = QEMU_ASYNC_JOB_MIGRATION_OUT
                  => job'.asyncJob = QEMU_ASYNC_JOB_NONE)
            /\ vm' = vm]_vars

\* MigrateBegin3 has returned with its callback registered under a
\* connection and the migration job held open: the teardown of that
\* connection is the next thing that can end the job
C14_Witness ==
    /\ closeCb.conn \in Conns
    /\ vm.inStore
    /\ job.asyncJob = QEMU_ASYNC_JOB_MIGRATION_OUT
    /\ job.asyncOwner = NoThread
    /\ \A t \in Threads : pc[t] = "idle"

\* C15: the MIGRATION_OUT job that MigrateBegin3 left open between calls
\* is ended only by a MigrateConfirm3 call or by the close-callback cleanup,
\* and while it is active no synchronous job of a kind outside its mask is
\* admitted
C15_MigrationJobHeldOpen ==
    [][/\ (/\ vm.inStore
            /\ job.asyncJob = QEMU_ASYNC_JOB_MIGRATION_OUT
            /\ job.asyncOwner = NoThread
            /\ job'.asyncJob # QEMU_ASYNC_JOB_MIGRATION_OUT)
           => \/ \E t \in Threads :
                   /\ op'[t] = "MigrateConfirm3" /\ pc'[t] = "idle"
                   /\ (pc[t] # "idle" \/ calls' # calls)
              \/ closeCb # NoCallback /\ closeCb' = NoCallback /\ pc' = pc
       /\ (/\ vm.inStore
            /\ job.asyncJob = QEMU_ASYNC_JOB_MIGRATION_OUT
            /\ job.active = QEMU_JOB_NONE
            /\ job'.active \notin {QEMU_JOB_NONE, QEMU_JOB_ASYNC_NESTED})
           => job'.active \in job.mask]_vars

\* the place of a migration phase in the sequence of an outgoing migration
PhaseRank(ph) ==
    CASE ph = "NONE" -> 0
      [] ph = "BEGIN3" -> 1
      [] ph = "PERFORM3" -> 2
      [] ph \in {"CONFIRM3", "CONFIRM3_CANCELLED"} -> 3

\* C16: the phase of a migration job only moves forward along BEGIN3,
\* CONFIRM3 or CONFIRM3_CANCELLED; a confirm phase is entered only from
\* the BEGIN3 of the job, and after a confirm phase the job ends without
\* another phase
C16_PhaseOrder ==
    [][/\ (/\ job.asyncJob = QEMU_ASYNC_JOB_MIGRATION_OUT
            /\ job'.asyncJob = QEMU_ASYNC_JOB_MIGRATION_OUT)
           => PhaseRank(job'.phase) >= PhaseRank(job.phase)
       /\ (PhaseRank(job'.phase) = 3 /\ PhaseRank(job.phase) # 3)
           => /\ job.asyncJob = QEMU_ASYNC_JOB_MIGRATION_OUT
              /\ job.phase \in {"BEGIN3", "PERFORM3"}
       /\ (PhaseRank(job.phase) = 3 /\ job'.phase # job.phase)
           => /\ job'.asyncJob = QEMU_ASYNC_JOB_NONE
              /\ job'.phase = "NONE"]_vars

\* C17: a save image with the partial magic is never used to start a
\* domain: an explicit restore of it fails and changes nothing, and a start
\* from it either removes the file and boots the domain, or fails
C17_PartialImageNeverUsed ==
    [][(img.present /\ img.header /\ img.magic = QEMUD_SAVE_PARTIAL)
        => /\ ~img'.restored
           /\ \A t \in Threads :
                /\ qemuDomainRestoreFlags(t)
                     => ret'[t] = "fail" /\ vm' = vm /\ img' = img
                /\ qemuDomainStartWithFlags(t)
                     => IF ret'[t] = "ok"
                        THEN vm'.active /\ ~img'.present
                        ELSE vm' = vm]_vars

\* a start from a managed save image with the partial magic removed the
\* file and booted the domain
C17_Witness ==
    /\ \E t \in Threads : op[t] = "Start" /\ ret[t] = "ok"
    /\ calls = 1
    /\ img.magic = QEMUD_SAVE_PARTIAL /\ img.header /\ ~img.present /\ ~img.restored
    /\ vm.active

\* C18: when the command that resumes the CPUs at the end of a save, dump
\* or snapshot fails while the process lives (the domain stays paused) and
\* the operation returns, it returns with its job released
C18_JobReleasedOnMonitorFailure ==
    [][\A t \in Threads :
         (/\ op[t] \in SaveOps \cup {"CoreDump", "Snapshot"}
          /\ pc[t] \in {"save_start_mon", "cd_start_mon", "sn_start_mon"}
          /\ mon[t] = "monitor"
          /\ job.asyncOwner = t /\ job.asyncJob # QEMU_ASYNC_JOB_NONE
          /\ pc'[t] = "idle"
          /\ vm.active /\ vm.alive /\ vm'.active /\ vm'.alive
          /\ vm.state = "paused" /\ vm'.state = "paused")
         => /\ job'.asyncJob = QEMU_ASYNC_JOB_NONE
            /\ job'.active = QEMU_JOB_NONE]_vars

\* C19: a domain whose process is gone moves to shutoff, and every thread
\* that waits for a job is admitted or gives up
C19_WaitersReleased ==
    /\ (vm.inStore /\ vm.active /\ ~vm.alive) ~> (~vm.inStore \/ ~vm.active)
    /\ \A t \in Threads : (pc[t] = "wait") ~> (pc[t] # "wait")

\* C20: when a destroy, a save or a crash dump stops a transient domain, the
\* domain is out of the store when the operation returns
C20_TransientRemoved ==
    [][\A t \in Threads :
         (/\ pc'[t] = "idle"
          /\ pc[t] # "idle" \/ calls' # calls
          /\ op'[t] \in {"Destroy", "Save", "CoreDump"}
          /\ vm.inStore /\ ~vm.persistent
          /\ vm.active /\ ~vm'.active)
         => ~vm'.inStore]_vars

\* C21: the watchdog worker has a command in flight only while it owns the
\* DUMP job it began, and a step of it ends an async job only if the job is
\* its own
C21_ConsumerUnderOwnJob ==
    [][\A t \in Threads :
         op[t] = "Watchdog"
         => /\ mon[t] # "none"
                => job.asyncJob = QEMU_ASYNC_JOB_DUMP /\ job.asyncOwner = t
            /\ (/\ pc[t] # "idle" /\ pc'[t] # pc[t]
                 /\ job.asyncJob # QEMU_ASYNC_JOB_NONE
                 /\ job'.asyncJob = QEMU_ASYNC_JOB_NONE)
                => job.asyncOwner = t]_vars

\* C22: while a thread holds the SNAPSHOT job of its external snapshot, the
\* mask of the job is QUERY+ABORT+SUSPEND+MIGRATION_OP during the memory step
\* and QUERY+ABORT at the disk step and at every later step
C22_MaskBackToDefault ==
    \A t \in Threads :
      (/\ op[t] = "Snapshot"
       /\ pc[t] \notin {"idle", "wait"}
       /\ job.asyncJob = QEMU_ASYNC_JOB_SNAPSHOT
       /\ job.asyncOwner = t)
      => job.mask = IF pc[t] \in {"sn_mem_enter", "sn_mem_mon"}
                    THEN WIDE_JOB_MASK
                    ELSE DEFAULT_JOB_MASK

\* thread t is blocked with driver->lock held.  The entry points that keep the
\* lock for the whole call give it up inside the ...WithDriver and ...Async
\* calls; qemuDomainSnapshotFSFreeze and qemuDomainSnapshotFSThaw call plain
\* qemuDomainObjEnterAgent under the lock taken by qemuDomainSnapshotCreateXML
qemuDriverLocked(t) ==
    /\ op[t] = "Snapshot"
    /\ pc[t] \in {"sn_freeze_agent", "sn_thaw_agent"}

\* C23: no thread holds the driver lock while it waits for admission or is
\* inside a monitor or agent command
C23_DriverLockNotHeldInIO ==
    \A t \in Threads : pc[t] # "idle" => ~qemuDriverLocked(t)

\* C24: every step that changes a field of the domain object or its job state
\* is made by a thread that holds the object's lock; the thread that has
\* returned from qemuDomainSaveInternal has unlocked it
C24_FieldsUnderLock ==
    [][\A t \in Threads :
         (pc[t] = "ms_flag" /\ pc'[t] # pc[t]) => (vm' = vm /\ job' = job)]_vars

C26_EntryOnlyWhileJobHeld ==
    closeCb # NoCallback => job.asyncJob = QEMU_ASYNC_JOB_MIGRATION_OUT

\* C27: a Set for a domain whose entry belongs to another connection returns
\* an error and leaves the entry as it is
C27_SetKeepsOtherConnection ==
    [][\A t \in Threads, c \in Conns, fn \in Callbacks :
         (/\ RegistrySet(t, c, fn)
          /\ closeCb.conn # 0
          /\ closeCb.conn # c)
         => ret'[t] = "fail" /\ closeCb' = closeCb]_vars

\* the only call so far was a Set that failed, and the entry is there
C27_Witness ==
    /\ calls = 1
    /\ closeCb.conn \in Conns
    /\ \E t \in Threads : op[t] = "Set" /\ ret[t] = "fail"

\* C28: an Unset removes the entry of the domain if the entry names the
\* function passed, and changes nothing if it names another function
C28_UnsetOnlyMatching ==
    [][\A t \in Threads, fn \in Callbacks :
         RegistryUnset(t, fn)
         => closeCb' = IF closeCb.cb = fn THEN NoCallback ELSE closeCb]_vars

\* the only call so far was an Unset with a function the entry does not
\* name, and the entry is there
C28_Witness ==
    /\ calls = 1
    /\ closeCb.conn \in Conns
    /\ \E t \in Threads :
         op[t] = "Unset" /\ \E fn \in Callbacks : Has(t, fn) /\ closeCb.cb # fn

\* C29: the phase of the async job is advanced only on a domain whose async
\* job is MIGRATION_OUT, and a MigrateConfirm3 that finds no such job fails
\* and leaves the job state and the registry as they are
C29_PhaseOnlyUnderMigrationJob ==
    [][/\ (job'.phase # job.phase /\ job'.phase # "NONE")
           => /\ job.asyncJob = QEMU_ASYNC_JOB_MIGRATION_OUT
              /\ job'.asyncJob = QEMU_ASYNC_JOB_MIGRATION_OUT
       /\ \A t \in Threads :
            (MigrateConfirmStart(t) /\ job.asyncJob # QEMU_ASYNC_JOB_MIGRATION_OUT)
            => ret'[t] = "fail" /\ job' = job /\ closeCb' = closeCb]_vars

\* a MigrateConfirm3 has been refused on a domain whose async job is of
\* another kind and is still running
C29_Witness ==
    /\ calls = 2
    /\ job.asyncJob \notin {QEMU_ASYNC_JOB_NONE, QEMU_ASYNC_JOB_MIGRATION_OUT}
    /\ job.phase = "NONE"
    /\ \E t, u \in Threads :
         /\ op[t] = "MigrateConfirm3" /\ pc[t] = "idle" /\ ret[t] = "fail"
         /\ u # t /\ pc[u] # "idle" /\ job.asyncOwner = u

\* C30: once startup is over and before any call is made the domain found
\* running has no job and no async job, whatever the status file said; and
\* every job recorded later belongs to a thread of this session
C30_JobResetOnStartup ==
    (\A t \in Threads : pc[t] # "startup")
    => /\ calls = 0 => (/\ job.active = QEMU_JOB_NONE
                        /\ job.asyncJob = QEMU_ASYNC_JOB_NONE)
       /\ job.active # QEMU_JOB_NONE => job.owner \in Threads
       /\ job.asyncJob # QEMU_ASYNC_JOB_NONE => job.asyncOwner \in Threads

\* the startup discarded a job of the previous session, and the watchdog
\* worker has since acquired a job of its own
C30_Witness ==
    /\ \E t \in Threads : op[t] = "Startup" /\ pc[t] = "idle" /\ ret[t] = "recovered"
    /\ job.asyncJob = QEMU_ASYNC_JOB_DUMP
    /\ \E u \in Threads : op[u] = "Watchdog" /\ job.asyncOwner = u

\* C32: a synchronous job that was begun and ended, on a domain with no
\* async job, leaves no trace: the step by which a thread leaves the job it
\* holds leaves the job state as it is when no job was ever taken (no active
\* job, no owner), and in such a state the request of any thread is
\* admitted at once, never made to wait.
C32_CleanRoundTrip ==
    [][\A t \in Threads :
         /\ (HoldsJob(t) /\ InSyncJob(t) /\ pc'[t] = "idle"
                /\ job.asyncJob = QEMU_ASYNC_JOB_NONE)
              => job' = NoJob
         /\ (job = NoJob /\ pc[t] = "idle") => pc'[t] # "wait"]_vars

\* thread 1 woke the guest up and returned, and thread 2, which called
\* after that, is inside the monitor under the MODIFY job
C32_Witness ==
    /\ op[1] = "PMWakeup" /\ pc[1] = "idle" /\ ret[1] = "ok"
    /\ op[2] = "PMWakeup" /\ pc[2] = "wakeup_mon"
    /\ job.active = QEMU_JOB_MODIFY /\ job.owner = 2
    /\ calls = 2

\* C33: the job of an outgoing migration is granted on a domain that is
\* not active (no job being held), with phase BEGIN3; and when that job is
\* ended after its phase was advanced to PERFORM3, no async job is left
\* and the phase is reset.  No step leaves a phase without an async job.
C33_PhaseResetAtEnd ==
    [][\A t \in Threads :
         /\ (AsyncJobBegin(t) /\ ~vm.active
                /\ job.active = QEMU_JOB_NONE /\ job.asyncJob = QEMU_ASYNC_JOB_NONE)
              => /\ ret'[t] = "ok"
                 /\ job'.asyncJob = QEMU_ASYNC_JOB_MIGRATION_OUT
                 /\ job'.asyncOwner = t
                 /\ job'.phase = "BEGIN3"
         /\ (AsyncJobEnd(t) /\ job.phase = "PERFORM3")
              => /\ job'.asyncJob = QEMU_ASYNC_JOB_NONE
                 /\ job'.phase = "NONE"
         /\ job'.asyncJob = QEMU_ASYNC_JOB_NONE => job'.phase = "NONE"]_vars

\* on the inactive domain thread 1 was granted the job, thread 2 advanced
\* its phase, thread 1 ended it
C33_Witness ==
    /\ ~vm.active
    /\ op[1] = "EndAsyncJob" /\ ret[1] = "ok"
    /\ op[2] = "AdvanceAsyncPhase" /\ ret[2] = "ok"
    /\ calls = 3
    /\ job.asyncJob = QEMU_ASYNC_JOB_NONE

C35_FreezeFollowedByThaw ==
    [][\A t \in Threads :
         (/\ op[t] = "Snapshot"
          /\ pc[t] \notin {"idle", "wait", "sn_freeze_agent"}
          /\ pc'[t] = "idle"
          /\ loc[t].f \cap {"thaw_ok", "thaw_fail"} # {}
          /\ "noagent" \notin loc[t].f)
         => \/ pc[t] = "sn_thaw_agent"
            \/ vm.active /\ ~vm'.active /\ ret'[t] = "ok"
            \/ vm'.refs < vm.refs \/ vm.refs = 0]_vars

\* C36: the file of a save image gets the complete magic only by the last
\* write of a save whose migration to the file has succeeded; the header
\* written before the migration carries the partial magic, so a save that
\* is in its migration, fails or is cut short leaves no file that this save
\* marked complete.
C36_CompleteMagicLast ==
    [][/\ (img' # img /\ img'.present /\ img'.header /\ img'.magic = QEMUD_SAVE_MAGIC)
          => \E t \in Threads :
               /\ pc[t] = "sm_touch" /\ pc'[t] = "idle"
               /\ Has(t, "migrated")
       /\ \A t \in Threads :
            (pc[t] = "sm_header" /\ pc'[t] = "sm_migrate" /\ img.present)
            => /\ img'.header
               /\ img'.magic = QEMUD_SAVE_PARTIAL]_vars

\* the first save is in its migration to the file: the header on the file
\* is the partial one
C36_Witness ==
    \E t \in Threads :
      /\ op[t] = "SaveMemory" /\ pc[t] = "sm_migrate"
      /\ img.present /\ img.header /\ img.magic = QEMUD_SAVE_PARTIAL
      /\ calls = 1

\* C37: a destroy that has to wait for its job, because another job is
\* active on the domain, completes: the domain ends up shut off.
C37_DestroyCompletes ==
    \A t \in Threads :
      (op[t] = "Destroy" /\ pc[t] = "wait") ~> (~vm.active \/ ~vm.inStore)

\* C38: while a synchronous block-job abort polls, from the cancel command
\* to the end of the loop, the calling thread owns the MODIFY job, no other
\* thread runs under a MODIFY job and no new block job is started, the
\* sleeps with the locks released included; and the loop is left only when
\* the block job is gone, the query failed, or the domain is no longer
\* active.
C38_JobHeldWhilePolling ==
    [][\A t \in Threads :
         /\ (op'[t] = "BlockJob" /\ pc'[t] \in {"bj_poll_mon", "bj_sleep"})
              => /\ job'.active = QEMU_JOB_MODIFY
                 /\ job'.owner = t
                 /\ vm'.blockjob # "running"
                 /\ \A u \in Threads \ {t} :
                      pc'[u] \notin {"bj_mon", "bj_poll_mon", "bj_sleep", "wakeup_mon"}
         /\ (op[t] = "BlockJob" /\ pc[t] \in {"bj_poll_mon", "bj_sleep"}
               /\ pc'[t] = "idle")
              => \/ vm.blockjob = "none" /\ ret'[t] = "ok"
                 \/ pc[t] = "bj_poll_mon" /\ ret'[t] = "fail"
                 \/ ~vm.active /\ ret'[t] = "fail"]_vars

\* the polling thread sleeps with the locks released while the cancelled
\* block job still exists and another thread waits to start a block pull
C38_Witness ==
    \E t, u \in Threads :
      /\ op[t] = "BlockJob" /\ pc[t] = "bj_sleep"
      /\ vm.blockjob = "cancelling"
      /\ op[u] = "BlockJob" /\ pc[u] = "wait"
      /\ "BLOCK_JOB_PULL" \in loc[u].f

\* C39: on a running domain, whenever qemuDomainAbortJob can take its job,
\* it fails with "no job is active on the domain" exactly when
\* qemuDomainGetJobInfo can report the job type VIR_DOMAIN_JOB_NONE, and
\* that is exactly when there is no async job or the async job is a
\* memory-only dump.
C39_JobInfoAndAbortAgree ==
    \A t \in Threads :
      (vm.inStore /\ vm.active /\ CanBeginJob(job, QEMU_JOB_ABORT))
        => LET nojob == AbortJobError(BeginJob(job, t, QEMU_JOB_ABORT), vm)
                          = "no job is active on the domain"
               none == "VIR_DOMAIN_JOB_NONE" \in qemuDomainGetJobInfoTypes(job, vm)
           IN /\ nojob <=> none
              /\ nojob <=> \/ job.asyncJob = QEMU_ASYNC_JOB_NONE
                           \/ job.asyncJob = QEMU_ASYNC_JOB_DUMP /\ job.dump_memory_only

\* C40: when virSecurityManagerGenLabel fails, every security label the
\* definition held before the call is still there, at its place and
\* unchanged; the failed call removes nothing but a label it appended.
C40_FailedGenLabelKeepsLabels ==
    [][\A t \in Threads :
         (pc[t] = "idle" /\ op'[t] = "GenLabel" /\ calls' = calls + 1
            /\ ret'[t] = "fail")
           => /\ Len(vm'.seclabels) >= Len(vm.seclabels)
              /\ \A i \in 1..Len(vm.seclabels) : vm'.seclabels[i] = vm.seclabels[i]]_vars

\* ------------------------------------------------------------ specification

Init ==
    /\ \E p \in BOOLEAN :
         vm = [inStore |-> TRUE, active |-> TRUE, alive |-> TRUE,
               state |-> "running", persistent |-> p,
               beingDestroyed |-> FALSE, blkdeviotune |-> "old", blockjob |-> "none",
               seclabels |-> <<>>,
               hasManagedSave |-> FALSE, refs |-> 1]
    /\ job = NoJob
    /\ mon = [t \in Threads |-> "none"]
    /\ closeCb = NoCallback
    /\ img = NoImage
    /\ pc = [t \in Threads |-> "idle"]
    /\ op = [t \in Threads |-> "none"]
    /\ ret = [t \in Threads |-> "none"]
    /\ loc = [t \in Threads |-> NoLoc]
    /\ calls = 0

\* the steps of thread t: a call of an entry point, or the next step of the
\* call it is in
Operation(t) ==
    \/ qemudDomainSuspend(t)
    \/ qemuDomainAbortJob(t)
    \/ qemudDomainCoreDump(t)
    \/ qemuDomainSave(t)
    \/ qemuDomainSnapshotCreateXML(t)
    \/ processWatchdogEvent(t)
    \/ qemuDomainDestroyFlags(t)
    \/ qemudDomainCreate(t)
    \/ qemuDomainModifyDeviceFlags(t)
    \/ qemuDomainBlockCommit(t)
    \/ qemuDomainSetBlockIoTune(t)
    \/ qemuDomainOpenGraphics(t)
    \/ qemuDomainMigrateSetMaxDowntime(t)
    \/ qemuDomainAgentCommand(t)
    \/ qemuDomainMigrateBegin3(t)
    \/ qemuDomainMigrateConfirm3(t)
    \/ BeginJobTimeout(t)
    \/ BeginAsyncJobTimeout(t)

Next ==
    \/ \E t \in Threads : Operation(t)
    \/ \E c \in Conns : qemudClose(c)
    \/ ProcessExit
    \/ MonitorEOF

Spec == Init /\ [][Next]_vars

\* a thread inside a call runs on: its monitor command ends, its wait for
\* a job ends in admission or in the timeout; the handler of the monitor's
\* EOF runs when it may.  New calls, process exits and connection closes
\* need not happen
FairSpec ==
    /\ Spec
    /\ WF_vars(MonitorEOF)
    /\ \A t \in Threads : WF_vars(pc[t] # "idle" /\ Operation(t))

\* the images a path can hold: none, a file too short for a header, a
\* header with the complete, the partial or another magic
Images ==
    {NoImage} \cup
    [present : {TRUE}, header : BOOLEAN,
     magic : {QEMUD_SAVE_MAGIC, QEMUD_SAVE_PARTIAL, "other"},
     was_running : BOOLEAN, restored : {FALSE}]

\* a defined domain that is shut off, or no domain, and any image
ImageInit ==
    /\ \E defined \in BOOLEAN, managed \in BOOLEAN :
         vm = [inStore |-> defined, active |-> FALSE, alive |-> FALSE,
               state |-> "shutoff", persistent |-> defined,
               beingDestroyed |-> FALSE, blkdeviotune |-> "old", blockjob |-> "none",
               seclabels |-> <<>>,
               hasManagedSave |-> defined /\ managed,
               refs |-> IF defined THEN 1 ELSE 0]
    /\ img \in Images
    /\ job = NoJob
    /\ mon = [t \in Threads |-> "none"]
    /\ closeCb = NoCallback
    /\ pc = [t \in Threads |-> "idle"]
    /\ op = [t \in Threads |-> "none"]
    /\ ret = [t \in Threads |-> "none"]
    /\ loc = [t \in Threads |-> NoLoc]
    /\ calls = 0

ImageNext ==
    \E t \in Threads :
      \/ qemuDomainRestoreFlags(t)
      \/ qemuDomainStartWithFlags(t)

ImageSpec == ImageInit /\ [][ImageNext]_vars

\* the registry with any entry for the domain, or none
RegistryInit ==
    /\ closeCb \in {NoCallback} \cup [conn : Conns, cb : Callbacks]
    /\ vm = [inStore |-> TRUE, active |-> TRUE, alive |-> TRUE,
             state |-> "running", persistent |-> TRUE,
             beingDestroyed |-> FALSE, blkdeviotune |-> "old", blockjob |-> "none",
               seclabels |-> <<>>,
             hasManagedSave |-> FALSE, refs |-> 1]
    /\ img = NoImage
    /\ job = NoJob
    /\ mon = [t \in Threads |-> "none"]
    /\ pc = [t \in Threads |-> "idle"]
    /\ op = [t \in Threads |-> "none"]
    /\ ret = [t \in Threads |-> "none"]
    /\ loc = [t \in Threads |-> NoLoc]
    /\ calls = 0

RegistryNext ==
    \E t \in Threads, fn \in Callbacks :
      \/ \E c \in Conns : RegistrySet(t, c, fn)
      \/ RegistryUnset(t, fn)

RegistrySpec == RegistryInit /\ [][RegistryNext]_vars

\* what the status file of a running domain can say about its job
Hints ==
    {[NoJob EXCEPT !.active = a, !.asyncJob = b, !.phase = ph] :
       a \in {QEMU_JOB_NONE, QEMU_JOB_MODIFY},
       b \in {QEMU_ASYNC_JOB_NONE, QEMU_ASYNC_JOB_SAVE, QEMU_ASYNC_JOB_MIGRATION_OUT},
       ph \in {"NONE", "PERFORM3"}}

\* the daemon starts: its first thread is in qemudStartup, the domain runs
\* and its status file holds any hint
StartupInit ==
    /\ \E p \in BOOLEAN :
         vm = [inStore |-> TRUE, active |-> TRUE, alive |-> TRUE,
               state |-> "running", persistent |-> p,
               beingDestroyed |-> FALSE, blkdeviotune |-> "old", blockjob |-> "none",
               seclabels |-> <<>>,
               hasManagedSave |-> FALSE, refs |-> 1]
    /\ job \in Hints
    /\ mon = [t \in Threads |-> "none"]
    /\ closeCb = NoCallback
    /\ img = NoImage
    /\ pc = [t \in Threads |-> IF t = 1 THEN "startup" ELSE "idle"]
    /\ op = [t \in Threads |-> IF t = 1 THEN "Startup" ELSE "none"]
    /\ ret = [t \in Threads |-> "none"]
    /\ loc = [t \in Threads |-> NoLoc]
    /\ calls = 0

\* no call is served and no event is handled before qemudStartup has
\* released the driver lock
StartupNext ==
    \/ \E t \in Threads : qemudStartup(t)
    \/ /\ \A u \in Threads : pc[u] # "startup"
       /\ \E t \in Threads :
            \/ qemudDomainSuspend(t)
            \/ qemuDomainAbortJob(t)
            \/ processWatchdogEvent(t)
            \/ BeginJobTimeout(t)

StartupSpec == StartupInit /\ [][StartupNext]_vars

\* the callers of qemuDomainPMWakeup and qemudDomainSuspend on a running
\* domain, whose process can exit
WakeupNext ==
    \/ \E t \in Threads :
         \/ qemuDomainPMWakeup(t)
         \/ qemudDomainSuspend(t)
         \/ BeginJobTimeout(t)
    \/ ProcessExit
    \/ MonitorEOF

WakeupSpec == Init /\ [][WakeupNext]_vars

\* a defined domain, running or shut off, with no job
PhaseInit ==
    /\ \E a \in BOOLEAN :
         vm = [inStore |-> TRUE, active |-> a, alive |-> a,
               state |-> IF a THEN "running" ELSE "shutoff", persistent |-> TRUE,
               beingDestroyed |-> FALSE, blkdeviotune |-> "old", blockjob |-> "none",
               seclabels |-> <<>>,
               hasManagedSave |-> FALSE, refs |-> 1]
    /\ job = NoJob
    /\ mon = [t \in Threads |-> "none"]
    /\ closeCb = NoCallback
    /\ img = NoImage
    /\ pc = [t \in Threads |-> "idle"]
    /\ op = [t \in Threads |-> "none"]
    /\ ret = [t \in Threads |-> "none"]
    /\ loc = [t \in Threads |-> NoLoc]
    /\ calls = 0

\* the callers of the job layer, next to the two calls of an outgoing
\* migration
PhaseNext ==
    \E t \in Threads :
      \/ AsyncJobBegin(t)
      \/ AsyncJobAdvance(t)
      \/ AsyncJobEnd(t)
      \/ qemuDomainMigrateBegin3(t)
      \/ qemuDomainMigrateConfirm3(t)

PhaseSpec == PhaseInit /\ [][PhaseNext]_vars

\* the steps of thread t in calls that wait for synchronous and for async
\* jobs
WaitOperation(t) ==
    \/ qemudDomainSuspend(t)
    \/ qemuDomainModifyDeviceFlags(t)
    \/ qemuDomainPMWakeup(t)
    \/ qemuDomainAbortJob(t)
    \/ qemudDomainCoreDump(t)
    \/ qemuDomainSave(t)
    \/ BeginJobTimeout(t)
    \/ BeginAsyncJobTimeout(t)

WaitNext ==
    \/ \E t \in Threads : WaitOperation(t)
    \/ ProcessExit
    \/ MonitorEOF

\* a thread inside a call runs on, and its timed wait for a job ends when
\* the time is up; the handler of the monitor's EOF runs when it may
WaitSpec ==
    /\ Init /\ [][WaitNext]_vars
    /\ WF_vars(MonitorEOF)
    /\ \A t \in Threads : WF_vars(pc[t] # "idle" /\ WaitOperation(t))

\* a running domain, and at the path of the save any file or none
SaveMemoryInit ==
    /\ vm = [inStore |-> TRUE, active |-> TRUE, alive |-> TRUE,
             state |-> "paused", persistent |-> TRUE,
             beingDestroyed |-> FALSE, blkdeviotune |-> "old", blockjob |-> "none",
               seclabels |-> <<>>,
             hasManagedSave |-> FALSE, refs |-> 1]
    /\ img \in Images
    /\ job = NoJob
    /\ mon = [t \in Threads |-> "none"]
    /\ closeCb = NoCallback
    /\ pc = [t \in Threads |-> "idle"]
    /\ op = [t \in Threads |-> "none"]
    /\ ret = [t \in Threads |-> "none"]
    /\ loc = [t \in Threads |-> NoLoc]
    /\ calls = 0

SaveMemoryNext == \E t \in Threads : qemuDomainSaveMemory(t)

SaveMemorySpec == SaveMemoryInit /\ [][SaveMemoryNext]_vars

\* the callers of qemuDomainBlockJobImpl and the other users of the MODIFY
\* job, on a running domain whose disk may have a block job
BlockJobInit ==
    /\ \E p \in BOOLEAN, b \in {"none", "running"} :
         vm = [inStore |-> TRUE, active |-> TRUE, alive |-> TRUE,
               state |-> "running", persistent |-> p,
               beingDestroyed |-> FALSE, blkdeviotune |-> "old", blockjob |-> b,
               seclabels |-> <<>>,
               hasManagedSave |-> FALSE, refs |-> 1]
    /\ job = NoJob
    /\ mon = [t \in Threads |-> "none"]
    /\ closeCb = NoCallback
    /\ img = NoImage
    /\ pc = [t \in Threads |-> "idle"]
    /\ op = [t \in Threads |-> "none"]
    /\ ret = [t \in Threads |-> "none"]
    /\ loc = [t \in Threads |-> NoLoc]
    /\ calls = 0

BlockJobNext ==
    \/ \E t \in Threads :
         \/ qemuDomainBlockJobImpl(t)
         \/ qemuDomainPMWakeup(t)
         \/ qemuDomainDestroyFlags(t)
         \/ BeginJobTimeout(t)
    \/ BlockJobGone
    \/ ProcessExit
    \/ MonitorEOF

BlockJobSpec == BlockJobInit /\ [][BlockJobNext]_vars

\* the callers of qemuDomainGetJobInfo and qemuDomainAbortJob next to the
\* operations that run async jobs
JobInfoNext ==
    \/ \E t \in Threads :
         \/ qemuDomainGetJobInfo(t)
         \/ qemuDomainAbortJob(t)
         \/ qemudDomainCoreDump(t)
         \/ qemuDomainSnapshotCreateXML(t)
         \/ qemuDomainSave(t)
         \/ BeginJobTimeout(t)
         \/ BeginAsyncJobTimeout(t)
    \/ ProcessExit
    \/ MonitorEOF

JobInfoSpec == Init /\ [][JobInfoNext]_vars

\* the security labels a definition can arrive with: none, or labels of
\* any type, with or without a model
SecurityLabels ==
    [model : SecurityModels \cup {""}, type : {"DEFAULT", "DYNAMIC", "STATIC", "NONE"},
     norelabel : {FALSE}, implicit : {FALSE}]

RECURSIVE LabelLists(_)
LabelLists(n) ==
    IF n = 0 THEN {<<>>}
    ELSE LabelLists(n - 1)
           \cup {Append(s, l) : s \in {x \in LabelLists(n - 1) : Len(x) = n - 1},
                                l \in SecurityLabels}

\* the callers of virSecurityManagerGenLabel on a definition about to be
\* started
GenLabelInit ==
    /\ \E ls \in LabelLists(MaxLabels) :
         vm = [inStore |-> TRUE, active |-> FALSE, alive |-> FALSE,
               state |-> "shutoff", persistent |-> TRUE,
               beingDestroyed |-> FALSE, blkdeviotune |-> "old", blockjob |-> "none",
               seclabels |-> ls,
               hasManagedSave |-> FALSE, refs |-> 1]
    /\ job = NoJob
    /\ mon = [t \in Threads |-> "none"]
    /\ closeCb = NoCallback
    /\ img = NoImage
    /\ pc = [t \in Threads |-> "idle"]
    /\ op = [t \in Threads |-> "none"]
    /\ ret = [t \in Threads |-> "none"]
    /\ loc = [t \in Threads |-> NoLoc]
    /\ calls = 0

GenLabelNext == \E t \in Threads : virSecurityManagerGenLabel(t)

GenLabelSpec == GenLabelInit /\ [][GenLabelNext]_vars

====
